---------------------------- MODULE Spec2Model ----------------------------
(* A model of CliFM's suggestion engine (src/src/suggestions.c): the       *)
(* per-keystroke entry point rl_suggestions, the suggestion sources it     *)
(* consults, the suggestion buffer and the warning-prompt driver.          *)
(*                                                                         *)
(* C strings are sequences of one-character strings; a nullable pointer is *)
(* a sequence holding zero or one value (NULL == << >>).                   *)
EXTENDS Integers, Sequences, FiniteSets, TLC

(***************************************************************************)
(* Bounds of the model and sizes of the modelled terminal                  *)
(***************************************************************************)
MaxLen == 3

TermCols == 80

TermLines == 24

PromptOffset == 3

(***************************************************************************)
(* Program constants                                                       *)
(***************************************************************************)
NO_MATCH == 0

PARTIAL_MATCH == 1

FULL_MATCH == 2

CHECK_MATCH == 0

PRINT_MATCH == 1

SUG_STRATS == 7

EXIT_SUCCESS == 0

EXIT_FAILURE == 1

NULL == << >>

Some(s) == << s >>

NUL == "NUL"

BS == "BS"

NL == "NL"

ESC == "ESC"

(***************************************************************************)
(* libc string functions, over sequences of characters                     *)
(***************************************************************************)
Min(a, b) == IF a < b THEN a ELSE b

Take(s, n) == SubSeq(s, 1, Min(n, Len(s)))

Drop(s, n) == SubSeq(s, Min(n, Len(s)) + 1, Len(s))

\* s[i] for a 0-based C index i; the terminating NUL at and past the end
At(s, i) == IF i >= 0 /\ i < Len(s) THEN s[i + 1] ELSE NUL

TOUPPER(ch) ==
    CASE ch = "l" -> "L"
      [] ch = "q" -> "Q"
      [] ch = "x" -> "X"
      [] ch = "y" -> "Y"
      [] ch = "a" -> "A"
      [] ch = "b" -> "B"
      [] ch = "g" -> "G"
      [] ch = "i" -> "I"
      [] OTHER -> ch

Upper(s) == [i \in 1..Len(s) |-> TOUPPER(s[i])]

\* strncmp(a, b, n) == 0
strncmp_eq(a, b, n) == Take(a, n) = Take(b, n)

\* strncasecmp(a, b, n) == 0
strncasecmp_eq(a, b, n) == Upper(Take(a, n)) = Upper(Take(b, n))

\* strcasecmp(a, b) == 0
strcasecmp_eq(a, b) == Upper(a) = Upper(b)

\* 0-based index of the last occurrence of ch in s, or -1 (strrchr)
strrchr(s, ch) ==
    LET hits == {i \in 0..(Len(s) - 1) : s[i + 1] = ch}
    IN IF hits = {} THEN -1 ELSE CHOOSE i \in hits : \A j \in hits : j <= i

\* 0-based index of the first occurrence of ch in s at or after from, or -1
strchr_from(s, from, ch) ==
    LET hits == {i \in from..(Len(s) - 1) : i >= 0 /\ s[i + 1] = ch}
    IN IF hits = {} THEN -1 ELSE CHOOSE i \in hits : \A j \in hits : i <= j

IS_DIGIT(ch) == ch \in {"0", "1", "2", "3", "4", "5", "6", "7", "8", "9"}

DigitVal(ch) ==
    CASE ch = "0" -> 0 [] ch = "1" -> 1 [] ch = "2" -> 2 [] ch = "3" -> 3
      [] ch = "4" -> 4 [] ch = "5" -> 5 [] ch = "6" -> 6 [] ch = "7" -> 7
      [] ch = "8" -> 8 [] ch = "9" -> 9 [] OTHER -> 0

\* atoi: the value of the leading run of digits (no sign or blank is typed
\* in the modelled words)
RECURSIVE atoi_acc(_, _, _)
atoi_acc(s, i, acc) ==
    IF i > Len(s) \/ ~IS_DIGIT(s[i]) THEN acc
    ELSE atoi_acc(s, i + 1, acc * 10 + DigitVal(s[i]))

atoi(s) == atoi_acc(s, 1, 0)

is_number(s) == Len(s) > 0 /\ \A i \in 1..Len(s) : IS_DIGIT(s[i])

(***************************************************************************)
(* State.  The globals of suggestions.c and the readline variables it      *)
(* reads and writes, the tables and options loaded at startup (env), and   *)
(* a record of what the last call of rl_suggestions did (obs).             *)
(***************************************************************************)
VARIABLES
    rl_line_buffer,      \* the edit buffer (rl_end is its length)
    rl_point,            \* the cursor, 0..rl_end
    wrong_cmd,           \* 1 while the warning prompt is on
    rl_prompt,           \* the installed prompt: "normal" or "warning"
    saved_prompt,        \* readline's slot written by rl_save_prompt
    suggestion,          \* struct suggestion: printed, type, offset, nlines, filetype
    suggestion_buf,      \* the stored suggestion text, or NULL
    flags_baej,          \* flags & BAEJ_SUGGESTION
    cur_comp_type,       \* TCMP_NONE or TCMP_PATH
    cur_color,           \* the highlighter's current color
    nwords,              \* words of the current command, as last counted
    point_is_first_word, \* static flag of suggestions.c
    env,                 \* tables and options, fixed after startup
    obs,                 \* the last call: key, return value, sources tried
    startup              \* init.c: the input of a startup function and the
                         \* globals it has set

vars == << rl_line_buffer, rl_point, wrong_cmd, rl_prompt, saved_prompt,
           suggestion, suggestion_buf, flags_baej, cur_comp_type, cur_color,
           nwords, point_is_first_word, env, obs, startup >>

BAEJ_TYPES == {"BOOKMARK_SUG", "ALIAS_SUG", "ELN_SUG", "JCMD_SUG",
               "JCMD_SUG_NOACD", "BACKDIR_SUG", "SORT_SUG", "WS_NUM_SUG"}

rl_end(f) == Len(f.line)

(***************************************************************************)
(* The frame of one call: the globals, the locals of rl_suggestions and    *)
(* the observations collected for obs.                                     *)
(***************************************************************************)
\* No function of init.c is under study
NotStarted == [fn |-> "none"]

NoObs == [c |-> NUL, ret |-> -1, by |-> "none", tried |-> << >>,
          reached |-> FALSE, ops |-> << >>, req |-> NULL]

Frame(c) ==
    [line |-> rl_line_buffer, point |-> rl_point, wrong_cmd |-> wrong_cmd,
     prompt |-> rl_prompt, saved |-> saved_prompt, sug |-> suggestion,
     buf |-> suggestion_buf, baej |-> flags_baej, comp |-> cur_comp_type,
     color |-> cur_color, nwords |-> nwords, pifw |-> point_is_first_word,
     dispatching |-> 0,
     c |-> c, printed |-> 0, zero_offset |-> 0, lwo |-> 0, last_space |-> -1,
     last_word |-> NULL, first_word |-> NULL, word |-> "last", wlen |-> 0,
     full_word |-> 0, start_word |-> 0, jump |-> "",
     obs |-> [NoObs EXCEPT !.c = c]]

\* The word the local pointer `word` points at (first_word or last_word)
Word(f) == IF f.word = "first" THEN f.first_word[1] ELSE f.last_word[1]

\* A write through `word`: it changes the string `word` aliases
SetWord(f, s) ==
    IF f.word = "first" THEN [f EXCEPT !.first_word = Some(s)]
    ELSE [f EXCEPT !.last_word = Some(s)]

(***************************************************************************)
(* readline's prompt slot (rl_save_prompt, rl_set_prompt,                  *)
(* rl_restore_prompt)                                                      *)
(***************************************************************************)
rl_save_prompt(f) ==
    [f EXCEPT !.saved = f.prompt, !.obs.ops = Append(f.obs.ops, "save")]

rl_set_prompt(f, p) == [f EXCEPT !.prompt = p]

rl_restore_prompt(f) ==
    [f EXCEPT !.prompt = f.saved, !.saved = "none",
              !.obs.ops = Append(f.obs.ops, "restore")]

(***************************************************************************)
(* recover_from_wrong_cmd                                                  *)
(***************************************************************************)
\* The early return: called from the input loop, or on a later word, with
\* a non-escaped space that starts a word
recover_returns_early(f) ==
    /\ (f.dispatching = 0 \/ (f.nwords > 1 /\ f.pifw = 0))
    /\ LET p == strrchr(f.line, " ")
       IN /\ p > 0
          /\ At(f.line, p - 1) # "\\"
          /\ At(f.line, p + 1) # " "

\* recolorize_line: the color at the cursor once the line is redrawn, the
\* comment color on a line that starts with '#'
recolorize_line(f) ==
    [f EXCEPT !.color = IF At(f.line, 0) = "#" THEN "hc_c" ELSE "tx_c"]

\* What a recover_from_wrong_cmd that forgets the prompt would do
recover_forgets_prompt(f) ==
    IF recover_returns_early(f)
    THEN [f EXCEPT !.obs.ops = Append(f.obs.ops, "early")]
    ELSE [f EXCEPT !.wrong_cmd = 0]

recover_from_wrong_cmd(f) ==
    IF recover_returns_early(f)
    THEN [f EXCEPT !.obs.ops = Append(f.obs.ops, "early")]
    ELSE LET f1 == rl_restore_prompt(f)
             f2 == IF env.highlight = 1 THEN recolorize_line(f1) ELSE f1
         IN [f2 EXCEPT !.wrong_cmd = 0]

(***************************************************************************)
(* clear_suggestion                                                        *)
(***************************************************************************)
CS_FREEBUF == 1

clear_suggestion(f, sflag) ==
    [f EXCEPT !.sug.printed = 0,
              !.buf = IF sflag = CS_FREEBUF THEN NULL ELSE f.buf]

(***************************************************************************)
(* print_suggestion and its helpers                                        *)
(***************************************************************************)
\* The column of the cursor, as print_suggestion computes it
Curcol(f) ==
    LET raw == PromptOffset + Len(f.line)
    IN IF raw > TermCols THEN ((raw - 1) % TermCols) + 1 ELSE raw

calculate_suggestion_lines(f, suggestion_len) ==
    LET isbaej == f.sug.type \in BAEJ_TYPES
        cuc    == Curcol(f) + (IF isbaej THEN 3 ELSE 0)
        cucs   == cuc + suggestion_len
                  + (IF env.highlight = 0 /\ f.point < rl_end(f)
                     THEN rl_end(f) - f.point - 1 ELSE 0)
        slines == IF cucs > TermCols
                  THEN (cucs \div TermCols)
                       + (IF cucs % TermCols > 0 THEN 1 ELSE 0)
                  ELSE 1
    IN [baej |-> isbaej, slines |-> slines]

\* The verdict of check_conditions from what calculate_suggestion_lines
\* returned: r is [baej, slines]
conditions_verdict(r, baej) ==
    [ok |-> ~(r.slines > TermLines \/ (env.vt100 = 1 /\ r.slines > 1)),
     baej |-> IF r.baej THEN 1 ELSE baej, slines |-> r.slines, ran |-> TRUE]

\* [ok, baej, slines]: baej is 1 once calculate_suggestion_lines saw a BAEJ type
check_conditions(f, offset, wlen, baej) ==
    IF offset > wlen
       \/ wlen - offset = 0
       \/ wlen - offset > (TermCols * TermLines) - Curcol(f)
    THEN [ok |-> FALSE, baej |-> baej, slines |-> 0, ran |-> FALSE]
    ELSE conditions_verdict(calculate_suggestion_lines(f, wlen - offset - 1),
                            baej)

\* The request print_suggestion was called with, kept for the observations
Request(f, str, offset, stored) ==
    Some([str |-> str, offset |-> offset, type |-> f.sug.type, stored |-> stored])

\* print_suggestion after check_conditions: cc is its verdict, early is 1
\* when the BAEJ flag was raised before it ran
store_suggestion(f, str, offset, early, cc) ==
    IF ~cc.ok
    THEN [f EXCEPT !.baej = IF early = 1 \/ (cc.ran /\ cc.baej = 1)
                             THEN 1 ELSE 0,
                   !.obs.req = Request(f, str, offset, FALSE)]
    ELSE [f EXCEPT !.baej = IF early = 1 \/ (cc.ran /\ cc.baej = 1)
                             THEN 1 ELSE 0,
                   !.buf = Some(str),
                   !.sug.nlines = cc.slines,
                   !.obs.req = Request(f, str, offset, TRUE)]

\* print_suggestion from the test that turns the suggestion into a BAEJ one
\* (an alias, or a path that does not continue the last word)
print_with_flag(f, str, offset, early) ==
    store_suggestion(f, str, offset, early,
                     check_conditions(f, IF early = 1 THEN 0 ELSE offset,
                                      Len(str), early))

\* An alias, or a path suggestion that does not continue the last word
is_baej_request(f, str) ==
    \/ f.sug.type = "ALIAS_SUG"
    \/ /\ f.last_word # NULL
       /\ f.comp = "TCMP_PATH"
       /\ ~(IF env.case_sens_path_comp = 1
            THEN strncmp_eq(f.last_word[1], str, Len(f.last_word[1]))
            ELSE strncasecmp_eq(f.last_word[1], str, Len(f.last_word[1])))

\* print_suggestion once any suggestion on screen has been cleared
print_cleared(f, str, offset) ==
    print_with_flag(f, str, offset, IF is_baej_request(f, str) THEN 1 ELSE 0)

print_suggestion(f, str, offset) ==
    IF Len(str) = 0 \/ f.wrong_cmd = 1
    THEN [f EXCEPT !.obs.req = Request(f, str, offset, FALSE)]
    ELSE print_cleared(IF f.sug.printed # 0
                       THEN clear_suggestion(f, CS_FREEBUF) ELSE f,
                       str, offset)

(***************************************************************************)
(* turn_it_wrong, print_warning_prompt                                     *)
(***************************************************************************)
\* A turn_it_wrong that leaves the cursor where rl_insert_text put it
turn_it_wrong_cursor_at_end(f) ==
    LET b  == f.line
        f1 == [f EXCEPT !.color = "hw_c"]
        f2 == [f1 EXCEPT !.line = << >>, !.point = 0]      \* rl_delete_text
    IN [f2 EXCEPT !.line = b, !.point = Len(b)]            \* rl_insert_text

turn_it_wrong(f) ==
    LET b  == f.line
        bk == f.point
        f1 == [f EXCEPT !.color = "hw_c"]
        f2 == [f1 EXCEPT !.line = << >>, !.point = 0]      \* rl_delete_text
        f3 == [f2 EXCEPT !.line = b, !.point = Len(b)]     \* rl_insert_text
    IN [f3 EXCEPT !.point = bk]

\* The body of print_warning_prompt once its guard has passed
install_warning_prompt(f, lc) ==
    LET f1 == IF f.sug.printed # 0 THEN clear_suggestion(f, CS_FREEBUF) ELSE f
        f2 == rl_save_prompt([f1 EXCEPT !.wrong_cmd = 1])
        f3 == rl_set_prompt(f2, "warning")
    IN IF env.highlight = 1
          /\ ((f3.point < rl_end(f3) /\ f3.nwords > 1)
              \/ (lc = " " /\ f3.nwords = 1))
       THEN turn_it_wrong(f3)
       ELSE f3

\* What print_warning_prompt would do if it did not read the option
warns_whatever_the_option(f, fc, lc) ==
    IF f.wrong_cmd = 0 /\ fc \notin {";", ":", "#", "$", "'", "\""}
    THEN install_warning_prompt(f, lc)
    ELSE f

\* What print_warning_prompt would do if it did not test wrong_cmd
warns_when_already_wrong(f, fc, lc) ==
    IF env.warning_prompt = 1 /\ fc \notin {";", ":", "#", "$", "'", "\""}
    THEN install_warning_prompt(f, lc)
    ELSE f

print_warning_prompt(f, fc, lc) ==
    IF env.warning_prompt = 1 /\ f.wrong_cmd = 0
       /\ fc \notin {";", ":", "#", "$", "'", "\""}
    THEN install_warning_prompt(f, lc)
    ELSE f

(***************************************************************************)
(* Helpers of other files that the sources call                            *)
(***************************************************************************)
Ret(f, r) == [f EXCEPT !.printed = r]

\* Prefix comparison of the first len bytes, per case_sens_path_comp
PathPrefixEq(a, b, len) ==
    IF env.case_sens_path_comp = 1 THEN strncmp_eq(a, b, len)
    ELSE strncasecmp_eq(a, b, len)

PathEq(a, b) ==
    IF env.case_sens_path_comp = 1 THEN a = b ELSE strcasecmp_eq(a, b)

is_internal_c(s) == s \in env.internal_cmds

is_internal_f(s) == s \in env.internal_f

QuoteChars == {" ", "\\", "'", "\"", "$", "#", ";", "|", "&", "*", "?"}

is_quote_char(ch) == ch \in QuoteChars

\* escape_str: a backslash before every character the shell would interpret
RECURSIVE escape_str(_)
escape_str(s) ==
    IF s = << >> THEN << >>
    ELSE (IF is_quote_char(s[1]) THEN << "\\", s[1] >> ELSE << s[1] >>)
         \o escape_str(Tail(s))

\* fuzzy_match: the characters of s occur in name in order
RECURSIVE IsSubsequence(_, _)
IsSubsequence(s, name) ==
    IF s = << >> THEN TRUE
    ELSE IF name = << >> THEN FALSE
    ELSE IF s[1] = name[1] THEN IsSubsequence(Tail(s), Tail(name))
    ELSE IsSubsequence(s, Tail(name))

fuzzy_match(s, name, case_sens) ==
    /\ s # << >>
    /\ IF case_sens = 1 THEN IsSubsequence(s, name)
       ELSE IsSubsequence(Upper(s), Upper(name))

\* get_last_space: 0-based index of the last space not preceded by a
\* backslash, or -1 for NULL
get_last_space(str, len) ==
    LET hits == {i \in 0..(len - 1) :
                   /\ At(str, i) = " "
                   /\ (i = 0 \/ At(str, i - 1) # "\\")}
    IN IF str = << >> \/ hits = {} THEN -1
       ELSE CHOOSE i \in hits : \A j \in hits : j <= i

\* __expand_eln: the word is a bare number
expand_eln(s) == IF is_number(s) THEN 1 ELSE 0

\* The first i in lo..hi (ascending) satisfying P, or 0
FirstUp(S) == IF S = {} THEN 0 ELSE CHOOSE i \in S : \A j \in S : i <= j

\* The last i satisfying P (a descending scan's first hit), or 0
FirstDown(S) == IF S = {} THEN 0 ELSE CHOOSE i \in S : \A j \in S : j <= i

(***************************************************************************)
(* check_history                                                           *)
(***************************************************************************)
\* A test that would pass over an entry no longer than the text typed
history_entry_is_longer(str, len, cmd) ==
    /\ TOUPPER(At(str, 0)) = TOUPPER(At(cmd, 0))
    /\ PathPrefixEq(str, cmd, len)
    /\ Len(cmd) > len

\* The test of the loop body that decides on entry cmd
history_entry_matches(str, len, cmd) ==
    /\ TOUPPER(At(str, 0)) = TOUPPER(At(cmd, 0))
    /\ ~(len > 1 /\ At(cmd, 1) # NUL
         /\ TOUPPER(At(str, 1)) # TOUPPER(At(cmd, 1)))
    /\ PathPrefixEq(str, cmd, len)

\* What check_history would do if it scanned the history oldest entry first
check_history_oldest_first(f, str, len) ==
    IF str = << >> \/ len = 0 THEN Ret(f, NO_MATCH)
    ELSE LET i == FirstUp({k \in 1..Len(env.history) :
                      history_entry_matches(str, len, env.history[k])})
         IN IF i = 0 THEN Ret(f, NO_MATCH)
            ELSE IF Len(env.history[i]) > len
            THEN Ret(print_suggestion([f EXCEPT !.sug.type = "HIST_SUG"],
                                      env.history[i], len), PARTIAL_MATCH)
            ELSE Ret(f, FULL_MATCH)

check_history(f, str, len) ==
    IF str = << >> \/ len = 0 THEN Ret(f, NO_MATCH)
    ELSE LET i == FirstDown({k \in 1..Len(env.history) :
                        history_entry_matches(str, len, env.history[k])})
         IN IF i = 0 THEN Ret(f, NO_MATCH)
            ELSE IF Len(env.history[i]) > len
            THEN Ret(print_suggestion([f EXCEPT !.sug.type = "HIST_SUG"],
                                      env.history[i], len), PARTIAL_MATCH)
            ELSE Ret(f, FULL_MATCH)

(***************************************************************************)
(* check_aliases                                                           *)
(***************************************************************************)
\* What the test would be if print mode compared whole names too
alias_hit_by_equality(str, len, print, a) ==
    /\ TOUPPER(At(a.name, 0)) = TOUPPER(At(str, 0))
    /\ IF print = CHECK_MATCH THEN PathEq(a.name, str)
       ELSE PathEq(a.name, str) /\ a.cmd # << >>

alias_entry_hit(str, len, print, a) ==
    /\ TOUPPER(At(a.name, 0)) = TOUPPER(At(str, 0))
    /\ IF print = CHECK_MATCH THEN PathEq(a.name, str)
       ELSE PathPrefixEq(a.name, str, len) /\ a.cmd # << >>

check_aliases(f, str, len, print) ==
    IF Len(env.aliases) = 0 THEN Ret(f, NO_MATCH)
    ELSE LET i == FirstDown({k \in 1..Len(env.aliases) :
                        alias_entry_hit(str, len, print, env.aliases[k])})
         IN IF i = 0 THEN Ret(f, NO_MATCH)
            ELSE IF print = CHECK_MATCH THEN Ret(f, FULL_MATCH)
            ELSE Ret(print_suggestion([f EXCEPT !.sug.type = "ALIAS_SUG"],
                                      env.aliases[i].cmd, 0), PARTIAL_MATCH)

(***************************************************************************)
(* check_eln                                                               *)
(***************************************************************************)
\* What the test would be if it did not read autocd and auto_open
eln_ignores_options(f, n) ==
    n >= 1 /\ n <= Len(env.file_info)

eln_is_valid(f, n) ==
    /\ n >= 1 /\ n <= Len(env.file_info)
    /\ ~(f.nwords = 1
         /\ ((env.file_info[n].dir = 1 /\ env.autocd = 0)
             \/ (env.file_info[n].dir = 0 /\ env.auto_open = 0)))

check_eln(f, str, print) ==
    IF str = << >> THEN Ret(f, NO_MATCH)
    ELSE LET n == atoi(str)
         IN IF ~eln_is_valid(f, n) THEN Ret(f, NO_MATCH)
            ELSE IF print = CHECK_MATCH THEN Ret(f, FULL_MATCH)
            ELSE LET e  == env.file_info[n]
                     f1 == [f EXCEPT !.sug.type = "ELN_SUG",
                                     !.sug.filetype =
                                        IF e.dir = 1 THEN "DT_DIR" ELSE "DT_REG"]
                     txt == IF e.dir = 1 THEN e.name \o << "/" >> ELSE e.name
                 IN Ret(print_suggestion(f1, txt, 0), PARTIAL_MATCH)

(***************************************************************************)
(* check_filenames.  The function works on the caller's word in place:     *)
(* str is the word past the skipped prefix, len the caller's length.       *)
(***************************************************************************)
\* skip_leading_backslashes: how many bytes the pointer advances
RECURSIVE leading_backslashes(_, _)
leading_backslashes(s, len) ==
    IF len = 0 \/ At(s, 0) # "\\" THEN 0
    ELSE 1 + leading_backslashes(Tail(s), len - 1)

skip_leading_backslashes(s, len) ==
    LET k == IF len = 0 THEN 0 ELSE leading_backslashes(s, len)
    IN [str |-> Drop(s, k), len |-> len - k, skipped |-> k]

skip_leading_dot_slash(s, len) ==
    IF len >= 2 /\ At(s, 0) = "." /\ At(s, 1) = "/"
    THEN [str |-> Drop(s, 2), len |-> len - 2, dot_slash |-> 1]
    ELSE [str |-> s, len |-> len, dot_slash |-> 0]

\* skip_leading_spaces removes the blanks at the END of str, writing NULs
RECURSIVE skip_leading_spaces(_, _)
skip_leading_spaces(s, len) ==
    IF len > 0 /\ At(s, len - 1) = " "
    THEN skip_leading_spaces(Take(s, len - 1), len - 1)
    ELSE [str |-> s, len |-> len]

remove_trailing_slash(s, len) ==
    IF len > 0 /\ At(s, len - 1) = "/"
    THEN [str |-> Take(s, len - 1), len |-> len - 1, removed |-> 1]
    ELSE [str |-> s, len |-> len, removed |-> 0]

print_directory_suggestion(f, i, len) ==
    LET f1  == [f EXCEPT !.sug.filetype = "DT_DIR"]
        tmp == env.file_info[i].name \o << "/" >>
    IN print_suggestion(f1, escape_str(tmp), len)

print_reg_file_suggestion(f, str, i, len, dot_slash) ==
    LET f1   == [f EXCEPT !.sug.filetype = "DT_REG"]
        tmp  == escape_str(env.file_info[i].name)
        len1 == len + Cardinality({k \in 1..Len(str) : is_quote_char(str[k])})
    IN IF dot_slash = 1
       THEN print_suggestion(f1, << ".", "/" >> \o tmp, len1 + 2)
       ELSE print_suggestion(f1, tmp, len1)

\* A loop that forgets the test of the files that follow `cd `
cd_takes_any_entry(f, i, len, first_word) ==
    /\ len # 0
    /\ ~(first_word = 1
         /\ ((env.file_info[i].dir = 1 /\ env.autocd = 0)
             \/ (env.file_info[i].dir = 0 /\ env.auto_open = 0)))

\* A loop that compares every entry, whatever its kind
every_entry_is_compared(f, i, len, first_word) == len # 0

\* The entries the loop does not skip before it compares names
filename_candidate(f, i, len, first_word) ==
    /\ len # 0
    /\ ~(first_word = 1
         /\ ((env.file_info[i].dir = 1 /\ env.autocd = 0)
             \/ (env.file_info[i].dir = 0 /\ env.auto_open = 0)))
    /\ ~(f.nwords > 1 /\ At(f.line, 0) = "c" /\ At(f.line, 1) = "d"
         /\ At(f.line, 2) = " " /\ env.file_info[i].dir = 0)

filename_prefix_hit(str, len, name) ==
    IF env.case_sens_path_comp = 1
    THEN At(str, 0) = At(name, 0) /\ strncmp_eq(str, name, len)
    ELSE TOUPPER(At(str, 0)) = TOUPPER(At(name, 0))
         /\ strncasecmp_eq(str, name, len)

filename_fuzzy_hit(str, name) ==
    env.fuzzy_match = 1 /\ fuzzy_match(str, name, env.case_sens_path_comp)

\* The word as the loop of check_filenames compares it, from the results
\* a, b, sp, sl of the four trimming steps: str and len, the prefix `pre`
\* of the word that was skipped, and what was removed
filename_key_of(w0, a, b, sl) ==
    [str |-> sl.str, len |-> sl.len, removed |-> sl.removed,
     dot_slash |-> b.dot_slash, pre |-> Take(w0, a.skipped + 2 * b.dot_slash)]

filename_key_spaces(w0, a, b, sp) ==
    filename_key_of(w0, a, b, remove_trailing_slash(sp.str, sp.len))

filename_key_dot_slash(w0, a, b) ==
    filename_key_spaces(w0, a, b, skip_leading_spaces(b.str, b.len))

filename_key_backslashes(w0, a) ==
    filename_key_dot_slash(w0, a, skip_leading_dot_slash(a.str, a.len))

filename_key(w0, len0) ==
    filename_key_backslashes(w0, skip_leading_backslashes(w0, len0))

\* `if (c != BS) suggestion.type = FILE_SUG;`
set_file_type(f, c) ==
    IF c # BS THEN [f EXCEPT !.sug.type = "FILE_SUG"] ELSE f

\* The suggestion for entry i: a directory or a regular file
print_filename(f, k, i) ==
    IF env.file_info[i].dir = 1
    THEN print_directory_suggestion(f, i, k.len)
    ELSE print_reg_file_suggestion(f, k.str, i, k.len, k.dot_slash)

\* The word when nothing matched: the trailing slash is put back
word_with_slash_back(k) ==
    k.pre \o (IF k.removed = 1 THEN k.str \o << "/" >> ELSE k.str)

\* The loop of check_filenames for a word that is still being typed: hit
\* is the first candidate with the word as a prefix, fz the first
\* candidate matching fuzzily (0 for none)
filenames_loop_result(f, k, c, hit, fz) ==
    IF hit # 0
    THEN IF Len(env.file_info[hit].name) = k.len
         THEN Ret(SetWord(f, k.pre \o k.str), FULL_MATCH)
         ELSE Ret(print_filename(set_file_type(SetWord(f, k.pre \o k.str), c),
                                 k, hit), PARTIAL_MATCH)
    ELSE IF fz # 0
    THEN Ret(print_filename(
                 set_file_type([SetWord(f, k.pre \o k.str)
                                  EXCEPT !.comp = "TCMP_PATH"], c), k, fz),
             PARTIAL_MATCH)
    ELSE Ret(SetWord(f, word_with_slash_back(k)), NO_MATCH)

filename_candidates(f, k, first_word) ==
    {i \in 1..Len(env.file_info) : filename_candidate(f, i, k.len, first_word)}

\* check_filenames once the word has been trimmed to the key k
check_filenames_key(f, k, c, first_word, full_word) ==
    IF full_word # 0
    THEN IF \E i \in 1..Len(env.file_info) : PathEq(k.str, env.file_info[i].name)
         THEN Ret(SetWord(f, k.pre \o k.str), FULL_MATCH)
         ELSE Ret(SetWord(f, word_with_slash_back(k)), NO_MATCH)
    ELSE filenames_loop_result(f, k, c,
             FirstUp({i \in filename_candidates(f, k, first_word) :
                 filename_prefix_hit(k.str, k.len, env.file_info[i].name)}),
             \* fuzzy_index: the first candidate, before the prefix hit, that
             \* matches fuzzily
             FirstUp({i \in filename_candidates(f, k, first_word) :
                 /\ ~filename_prefix_hit(k.str, k.len, env.file_info[i].name)
                 /\ filename_fuzzy_hit(k.str, env.file_info[i].name)}))

check_filenames(f, len0, c, first_word, full_word) ==
    check_filenames_key(f, filename_key(Word(f), len0), c, first_word,
                        full_word)

(***************************************************************************)
(* check_jumpdb                                                            *)
(***************************************************************************)
\* An entry compared by the last component of its path
jump_entry_by_last_component(str, len, print, path) ==
    len # 0 /\ PathPrefixEq(str, Drop(path, strrchr(path, "/") + 1), len)

jump_entry_passes(str, len, print, path) ==
    /\ TOUPPER(At(str, 0)) = TOUPPER(At(path, 0))
    /\ ~(len > 1 /\ At(path, 1) # NUL
         /\ TOUPPER(At(str, 1)) # TOUPPER(At(path, 1)))
    /\ IF print = CHECK_MATCH THEN PathEq(str, path)
       ELSE len # 0 /\ PathPrefixEq(str, path, len)

check_jumpdb(f, str, len, print) ==
    LET i == FirstDown({k \in 1..Len(env.jump_db) :
                   jump_entry_passes(str, len, print, env.jump_db[k].path)})
    IN IF i = 0 THEN Ret(f, NO_MATCH)
       ELSE IF print = CHECK_MATCH THEN Ret(f, FULL_MATCH)
       ELSE LET path == env.jump_db[i].path
            IN IF Len(path) <= len THEN Ret(f, FULL_MATCH)
               ELSE LET f1 == [f EXCEPT !.sug.type = "FILE_SUG",
                                        !.sug.filetype = "DT_DIR"]
                        tmp == IF Len(path) > 0 /\ path[Len(path)] # "/"
                               THEN path \o << "/" >> ELSE path
                    IN Ret(print_suggestion(f1, tmp, len), PARTIAL_MATCH)

(***************************************************************************)
(* check_bookmarks                                                         *)
(***************************************************************************)
bookmark_entry_passes(str, len, print, b) ==
    /\ TOUPPER(At(str, 0)) = TOUPPER(At(b.name, 0))
    /\ IF print = CHECK_MATCH THEN PathEq(str, b.name)
       ELSE len # 0 /\ PathPrefixEq(str, b.name, len) /\ b.exists = 1

print_bookmark_dir_suggestion(f, i) ==
    LET f1 == [f EXCEPT !.sug.type = "BOOKMARK_SUG", !.sug.filetype = "DT_DIR"]
        path == env.bookmarks[i].path
        tmp == IF Len(path) > 0 /\ path[Len(path)] # "/"
               THEN path \o << "/" >> ELSE path
    IN print_suggestion(f1, escape_str(tmp), 0)

print_bookmark_file_suggestion(f, i) ==
    LET f1 == [f EXCEPT !.sug.type = "BOOKMARK_SUG", !.sug.filetype = "DT_REG"]
    IN print_suggestion(f1, escape_str(env.bookmarks[i].path), 0)

check_bookmarks(f, str, len, print) ==
    IF Len(env.bookmarks) = 0 THEN Ret(f, NO_MATCH)
    ELSE LET i == FirstDown({k \in 1..Len(env.bookmarks) :
                       bookmark_entry_passes(str, len, print, env.bookmarks[k])})
         IN IF i = 0 THEN Ret(f, NO_MATCH)
            ELSE IF print = CHECK_MATCH THEN Ret(f, FULL_MATCH)
            ELSE IF env.bookmarks[i].dir = 1
            THEN Ret(print_bookmark_dir_suggestion(f, i), PARTIAL_MATCH)
            ELSE Ret(print_bookmark_file_suggestion(f, i), PARTIAL_MATCH)

(***************************************************************************)
(* check_completions (path completion)                                     *)
(***************************************************************************)
\* my_rl_path_completion: the first entry of the working directory that
\* has str as a prefix, or 0
my_rl_path_completion(str) ==
    FirstUp({i \in 1..Len(env.file_info) :
               PathPrefixEq(str, env.file_info[i].name, Len(str))})

get_print_status(f, str, match, len) ==
    LET f1 == IF f.sug.printed # 0 /\ f.buf # NULL
              THEN clear_suggestion(f, CS_FREEBUF) ELSE f
    IN IF (len > 0 /\ At(str, len - 1) = "/") \/ Len(match) = len
       THEN Ret(f1, FULL_MATCH) ELSE Ret(f1, PARTIAL_MATCH)

match_print(f, match, len, append_slash) ==
    LET t == IF append_slash = 1 THEN match \o << "/" >> ELSE match
        tmp == escape_str(t)
    IN IF tmp = << >> THEN print_suggestion(f, match, len)
       ELSE IF f.comp = "TCMP_PATH" /\ At(tmp, 0) = "\\" /\ At(tmp, 1) = "~"
       THEN print_suggestion(f, Tail(tmp), len)
       ELSE print_suggestion(f, tmp, len)

print_match(f, i, len, c) ==
    LET e  == env.file_info[i]
        f1 == IF e.dir = 1 THEN [f EXCEPT !.sug.filetype = "DT_DIR"] ELSE f
        f2 == IF c # BS THEN [f1 EXCEPT !.sug.type = "COMP_SUG"] ELSE f1
    IN Ret(match_print(f2, e.name, len, e.dir), PARTIAL_MATCH)

\* `cur_comp_type` after the match was reported or printed
set_comp_type(r) ==
    [r EXCEPT !.comp = IF r.printed = 0 THEN "TCMP_NONE" ELSE "TCMP_PATH"]

\* check_completions from the call of my_rl_path_completion on: m is the
\* entry it returned (0 for none)
completions_result(f, str, len, c, print, m) ==
    IF m = 0 THEN Ret([f EXCEPT !.comp = "TCMP_NONE"], NO_MATCH)
    ELSE set_comp_type(
             IF print = CHECK_MATCH
             THEN get_print_status([f EXCEPT !.comp = "TCMP_PATH"], str,
                                   env.file_info[m].name, len)
             ELSE print_match([f EXCEPT !.comp = "TCMP_PATH"], m, len, c))

\* check_completions once the word is trimmed: fw is the frame with the
\* trimmed word written back, a the result of skip_leading_backslashes
completions_of(fw, a, c, print) ==
    IF env.fuzzy_match # 0 /\ fw.nwords = 1 /\ At(a.str, 0) # "/"
       /\ is_internal_c(a.str)
    THEN Ret(fw, NO_MATCH)
    ELSE IF a.len = 0 THEN Ret([fw EXCEPT !.sug.filetype = "DT_REG"], NO_MATCH)
    ELSE completions_result([fw EXCEPT !.sug.filetype = "DT_REG"], a.str, a.len,
                            c, print, my_rl_path_completion(a.str))

\* sp is the result of skip_leading_spaces
completions_trimmed(f, skip, sp, c, print) ==
    completions_of(SetWord(f, Take(Word(f), skip) \o sp.str),
                   skip_leading_backslashes(sp.str, sp.len), c, print)

\* Works on the caller's word in place, past `skip` bytes of it
check_completions(f, skip, len0, c, print) ==
    IF Drop(Word(f), skip) = << >> THEN Ret(f, NO_MATCH)
    ELSE completions_trimmed(f, skip,
             skip_leading_spaces(Drop(Word(f), skip), len0), c, print)

(***************************************************************************)
(* check_builtins, check_cmds                                              *)
(***************************************************************************)
builtin_entry_passes(str, len, print, b) ==
    /\ At(str, 0) = At(b, 0)
    /\ IF print = CHECK_MATCH THEN str = b ELSE strncmp_eq(b, str, len)

check_builtins(f, str, len, print) ==
    LET i == FirstUp({k \in 1..Len(env.builtins) :
                 builtin_entry_passes(str, len, print, env.builtins[k])})
    IN IF i = 0 THEN Ret(f, NO_MATCH)
       ELSE IF print = CHECK_MATCH THEN Ret(f, FULL_MATCH)
       ELSE IF Len(env.builtins[i]) > len
       THEN Ret(print_suggestion([f EXCEPT !.sug.type = "CMD_SUG"],
                                 env.builtins[i], len), PARTIAL_MATCH)
       ELSE Ret(f, FULL_MATCH)

\* Internal command with a fused parameter ("ws2"): the word is cut, in
\* place, at its first digit 1-9.  skip: bytes of the word before str.
print_internal_cmd_suggestion(f, skip, len, print) ==
    LET str == Drop(Word(f), skip)
        j == FirstUp({k \in 1..Len(str) :
                        str[k] \in {"1", "2", "3", "4", "5", "6", "7", "8", "9"}})
    IN IF j = 0 \/ j = 1 THEN check_builtins(f, str, len, print)
       ELSE LET cut == Take(str, j - 1)
                fw  == SetWord(f, Take(Word(f), skip) \o cut)
            IN IF is_internal_c(cut) THEN Ret(fw, FULL_MATCH)
               ELSE Ret(fw, NO_MATCH)

\* -1 when the command is external and external commands are disabled
cmd_entry_usable(name) == is_internal_c(name) \/ env.ext_cmd_ok = 1

cmd_entry_passes(cmd, len, print, name) ==
    /\ At(cmd, 0) = At(name, 0)
    /\ IF print = CHECK_MATCH THEN cmd = name
       ELSE /\ ~(len > 1 /\ At(name, 1) # NUL /\ At(cmd, 1) # At(name, 1))
            /\ strncmp_eq(cmd, name, len)
            /\ cmd_entry_usable(name)

check_cmds(f, len0, print) ==
    LET str == Word(f)
    IN IF len0 = 0 \/ str = << >> THEN Ret(f, NO_MATCH)
       ELSE
         LET skip == IF At(str, 0) = "\\" /\ At(str, 1) # NUL THEN 1 ELSE 0
             cmd  == Drop(str, skip)
             len  == len0 - skip
             i == FirstUp({k \in 1..Len(env.bin_commands) :
                     cmd_entry_passes(cmd, len, print, env.bin_commands[k])})
         IN IF i = 0 THEN print_internal_cmd_suggestion(f, skip, len, print)
            ELSE IF print = CHECK_MATCH THEN Ret(f, FULL_MATCH)
            ELSE IF Len(env.bin_commands[i]) > len
            THEN Ret(print_suggestion([f EXCEPT !.sug.type = "CMD_SUG"],
                                      env.bin_commands[i], len), PARTIAL_MATCH)
            ELSE Ret(f, FULL_MATCH)

(***************************************************************************)
(* check_int_params, check_help, check_variables, check_users              *)
(***************************************************************************)
check_int_params(f, str, len) ==
    IF len = 0 THEN Ret(f, NO_MATCH)
    ELSE LET i == FirstUp({k \in 1..Len(env.param_str) :
                     /\ At(str, 0) = At(env.param_str[k], 0)
                     /\ Len(env.param_str[k]) > len
                     /\ strncmp_eq(str, env.param_str[k], len)})
         IN IF i = 0 THEN Ret(f, NO_MATCH)
            ELSE Ret(print_suggestion([f EXCEPT !.sug.type = "INT_CMD"],
                                      env.param_str[i], len), PARTIAL_MATCH)

HelpFlag == << "-", "-", "h", "e", "l", "p" >>

\* The buffer after `b[i] = ch`
poke(b, i, ch) == [b EXCEPT ![i + 1] = ch]

\* The buffer once the byte at i has been set to NUL and then to a space
\* (`*ret = '\0'; ... *ret = ' ';`)
cut_and_restore(b, i) == poke(poke(b, i, NUL), i, " ")

\* check_help works on the line itself: full_line is rl_line_buffer
check_help(f, full_line, last_word) ==
    LET len == Len(last_word)
        sp  == strchr_from(full_line, 0, " ")
    IN IF ~strncmp_eq(last_word, HelpFlag, len) THEN Ret(f, NO_MATCH)
       ELSE IF sp = -1 THEN Ret(f, NO_MATCH)
       ELSE IF ~is_internal_c(Take(full_line, sp))
       THEN Ret([f EXCEPT !.line = cut_and_restore(full_line, sp)], NO_MATCH)
       ELSE Ret(print_suggestion(
                    [f EXCEPT !.line = cut_and_restore(full_line, sp),
                              !.sug.type = "CMD_SUG"],
                    HelpFlag, len), PARTIAL_MATCH)

check_variables(f, str, len) ==
    LET i == FirstUp({k \in 1..Len(env.environ) :
                 /\ TOUPPER(At(env.environ[k], 0)) = TOUPPER(At(str, 0))
                 /\ strncasecmp_eq(str, env.environ[k], len)})
    IN IF i = 0 THEN Ret(f, NO_MATCH)
       ELSE Ret(print_suggestion([f EXCEPT !.sug.type = "VAR_SUG"],
                                 << "$" >> \o env.environ[i], len + 1),
                PARTIAL_MATCH)

check_users(f, str, len) ==
    LET i == FirstUp({k \in 1..Len(env.users) :
                 len = 0 \/ (At(str, 0) = At(env.users[k], 0)
                             /\ strncmp_eq(str, env.users[k], len))})
    IN IF i = 0 THEN Ret(f, NO_MATCH)
       ELSE Ret(print_suggestion([f EXCEPT !.sug.type = "USER_SUG"],
                                 << "~" >> \o env.users[i], len + 1),
                PARTIAL_MATCH)

(***************************************************************************)
(* is_last_word, count_words, get_last_word                                *)
(***************************************************************************)
is_last_word(f) ==
    IF f.point >= rl_end(f) THEN 1
    ELSE LET p == strchr_from(f.line, f.point, " ")
         IN IF p = -1 THEN 1
            ELSE IF \E k \in (p + 1)..(rl_end(f) - 1) : At(f.line, k) # " "
                 THEN 0 ELSE 1

\* The step as it would be if a space inside an open quote did not start a
\* word
count_words_step_quoted(b, w, st, color) ==
    LET q1 == IF b[w + 1] = "'" \/ b[w + 1] = "\""
              THEN (IF st.q = b[w + 1] THEN NUL ELSE b[w + 1])
              ELSE st.q
        s1 == [st EXCEPT !.q = q1]
    IN IF s1.first_non_space = 0 /\ b[w + 1] # " "
       THEN [s1 EXCEPT !.words = 1, !.start_word = w, !.first_non_space = 1]
       ELSE
         LET isgap == /\ w > 0 /\ b[w + 1] = " " /\ At(b, w - 1) # "\\"
                      /\ s1.q = NUL
             next  == At(b, w + 1) # NUL /\ At(b, w + 1) # " "
             s2 == IF isgap
                   THEN [s1 EXCEPT
                          !.last_word_start =
                             IF next THEN w + 1 ELSE s1.last_word_start,
                          !.full_word =
                             IF s1.full_word = 0
                                /\ At(b, w - 1) \notin {"|", ";", "&"}
                             THEN w ELSE s1.full_word,
                          !.words = IF next THEN s1.words + 1 ELSE s1.words]
                   ELSE s1
             issep == /\ s2.q = NUL /\ color # "hq_c" /\ w > 0
                      /\ At(b, w - 1) # "\\"
                      /\ ((b[w + 1] = "&" /\ At(b, w - 1) = "&")
                          \/ b[w + 1] = "|" \/ b[w + 1] = ";")
         IN IF issep
            THEN [s2 EXCEPT !.words = 0, !.first_non_space = 0, !.full_word = 0]
            ELSE s2

\* The step as it would be if it took the colour of a wrong command, not
\* the colour of quotes, for the colour that protects the separators
count_words_step_warned(b, w, st, color) ==
    LET q1 == IF b[w + 1] = "'" \/ b[w + 1] = "\""
              THEN (IF st.q = b[w + 1] THEN NUL ELSE b[w + 1])
              ELSE st.q
        s1 == [st EXCEPT !.q = q1]
    IN IF s1.first_non_space = 0 /\ b[w + 1] # " "
       THEN [s1 EXCEPT !.words = 1, !.start_word = w, !.first_non_space = 1]
       ELSE
         LET isgap == w > 0 /\ b[w + 1] = " " /\ At(b, w - 1) # "\\"
             next  == At(b, w + 1) # NUL /\ At(b, w + 1) # " "
             s2 == IF isgap
                   THEN [s1 EXCEPT
                          !.last_word_start =
                             IF next THEN w + 1 ELSE s1.last_word_start,
                          !.full_word =
                             IF s1.full_word = 0
                                /\ At(b, w - 1) \notin {"|", ";", "&"}
                             THEN w ELSE s1.full_word,
                          !.words = IF next THEN s1.words + 1 ELSE s1.words]
                   ELSE s1
             issep == /\ s2.q = NUL /\ color # "hw_c" /\ w > 0
                      /\ At(b, w - 1) # "\\"
                      /\ ((b[w + 1] = "&" /\ At(b, w - 1) = "&")
                          \/ b[w + 1] = "|" \/ b[w + 1] = ";")
         IN IF issep
            THEN [s2 EXCEPT !.words = 0, !.first_non_space = 0, !.full_word = 0]
            ELSE s2

\* One iteration of the loop of count_words, at index w
count_words_step(b, w, st, color) ==
    LET q1 == IF b[w + 1] = "'" \/ b[w + 1] = "\""
              THEN (IF st.q = b[w + 1] THEN NUL ELSE b[w + 1])
              ELSE st.q
        s1 == [st EXCEPT !.q = q1]
    IN IF s1.first_non_space = 0 /\ b[w + 1] # " "
       THEN [s1 EXCEPT !.words = 1, !.start_word = w, !.first_non_space = 1]
       ELSE
         LET isgap == w > 0 /\ b[w + 1] = " " /\ At(b, w - 1) # "\\"
             next  == At(b, w + 1) # NUL /\ At(b, w + 1) # " "
             s2 == IF isgap
                   THEN [s1 EXCEPT
                          !.last_word_start =
                             IF next THEN w + 1 ELSE s1.last_word_start,
                          !.full_word =
                             IF s1.full_word = 0
                                /\ At(b, w - 1) \notin {"|", ";", "&"}
                             THEN w ELSE s1.full_word,
                          !.words = IF next THEN s1.words + 1 ELSE s1.words]
                   ELSE s1
             issep == /\ s2.q = NUL /\ color # "hq_c" /\ w > 0
                      /\ At(b, w - 1) # "\\"
                      /\ ((b[w + 1] = "&" /\ At(b, w - 1) = "&")
                          \/ b[w + 1] = "|" \/ b[w + 1] = ";")
         IN IF issep
            THEN [s2 EXCEPT !.words = 0, !.first_non_space = 0, !.full_word = 0]
            ELSE s2

RECURSIVE count_words_loop(_, _, _, _)
count_words_loop(b, w, st, color) ==
    IF w >= Len(b) THEN st
    ELSE count_words_loop(b, w + 1, count_words_step(b, w, st, color), color)

\* [words, start_word, full_word, last_word_start, ...]
count_words(b, color) ==
    count_words_loop(b, 0,
        [words |-> 0, first_non_space |-> 0, start_word |-> 0, full_word |-> 0,
         last_word_start |-> 0, q |-> NUL], color)

\* get_last_word: the text after the last space (the whole line when the
\* space ends it) and its offset in the line
get_last_word(f, last_space) ==
    LET after == last_space # -1 /\ At(f.line, last_space + 1) # NUL
    IN [f EXCEPT !.last_word = Some(IF after THEN Drop(f.line, last_space + 1)
                                    ELSE f.line),
                 !.lwo = IF after THEN last_space + 1 ELSE 0]

(***************************************************************************)
(* The sources of the context-sensitive section (3.b)                      *)
(***************************************************************************)
SORT_TYPES == 11

MAX_WS == 8

SortNames == <<
    << "n", "o", "n", "e" >>,
    << "n", "a", "m", "e" >>,
    << "s", "i", "z", "e" >>,
    << "a", "t", "i", "m", "e" >>,
    << "b", "t", "i", "m", "e" >>,
    << "c", "t", "i", "m", "e" >>,
    << "m", "t", "i", "m", "e" >>,
    << "v", "e", "r", "s", "i", "o", "n" >>,
    << "e", "x", "t", "e", "n", "s", "i", "o", "n" >>,
    << "i", "n", "o", "d", "e" >>,
    << "o", "w", "n", "e", "r" >>,
    << "g", "r", "o", "u", "p" >> >>

\* 0-based index of the first occurrence of needle in hay, or -1 (strstr)
strstr(hay, needle) ==
    LET hits == {i \in 0..(Len(hay) - Len(needle)) :
                   SubSeq(hay, i + 1, i + Len(needle)) = needle}
    IN IF hits = {} THEN -1 ELSE CHOOSE i \in hits : \A j \in hits : i <= j

\* The loops over a table of names: the first name that has word as a
\* prefix is printed from wlen on, with the given type
name_table_source(f, table, word, wlen, type, casefold, esc) ==
    LET i == FirstUp({k \in 1..Len(table) :
                 IF casefold
                 THEN TOUPPER(At(word, 0)) = TOUPPER(At(table[k], 0))
                      /\ strncasecmp_eq(word, table[k], wlen)
                 ELSE At(word, 0) = At(table[k], 0)
                      /\ strncmp_eq(word, table[k], wlen)})
    IN IF i = 0 THEN Ret(f, 0)
       ELSE Ret(print_suggestion([f EXCEPT !.sug.type = type],
                    IF esc THEN escape_str(table[i]) ELSE table[i], wlen), 1)

check_tags(f, str, len, type) ==
    IF str = << >> \/ len = 0 \/ Len(env.tags) = 0 THEN Ret(f, 0)
    ELSE name_table_source(f, env.tags, str, len, type, FALSE, FALSE)

check_sort_methods(f, str, len) ==
    LET cleared == IF f.sug.printed # 0 THEN clear_suggestion(f, CS_FREEBUF) ELSE f
        a == atoi(str)
    IN IF len = 0 THEN Ret(cleared, 0)
       ELSE IF a < 0 \/ a > SORT_TYPES THEN Ret(cleared, 0)
       ELSE Ret(print_suggestion([f EXCEPT !.sug.type = "SORT_SUG"],
                                 SortNames[a + 1], 0), 1)

check_prompts(f, word, len) ==
    LET i == FirstDown({k \in 1..Len(env.prompts) :
                 /\ TOUPPER(At(word, 0)) = TOUPPER(At(env.prompts[k], 0))
                 /\ IF env.case_sensitive = 1
                    THEN strncmp_eq(env.prompts[k], word, len)
                    ELSE strncasecmp_eq(env.prompts[k], word, len)})
    IN IF i = 0 THEN Ret(f, 0)
       ELSE Ret(print_suggestion([f EXCEPT !.sug.type = "PROMPT_SUG"],
                                 env.prompts[i], len), 1)

\* env.ws_names[i] is the name of workspace i, << >> when it has none
check_workspaces(f, word, wlen) ==
    IF word = << >> THEN Ret(f, 0)
    ELSE IF Len(word) = 1 /\ IS_DIGIT(word[1]) /\ DigitVal(word[1]) >= 1
            /\ DigitVal(word[1]) <= MAX_WS
    THEN LET a == atoi(word)
         IN IF a > 0 /\ a <= Len(env.ws_names) /\ env.ws_names[a] # << >>
            THEN Ret(print_suggestion([f EXCEPT !.sug.type = "WS_NUM_SUG"],
                                      env.ws_names[a], 0), 1)
            ELSE Ret(f, 0)
    ELSE LET i == FirstDown({k \in 1..Len(env.ws_names) :
                     /\ env.ws_names[k] # << >>
                     /\ TOUPPER(At(word, 0)) = TOUPPER(At(env.ws_names[k], 0))
                     /\ strncasecmp_eq(word, env.ws_names[k], wlen)})
         IN IF i = 0 THEN Ret(f, 0)
            ELSE Ret(print_suggestion([f EXCEPT !.sug.type = "WS_NAME_SUG"],
                                      env.ws_names[i], wlen), 1)

\* dirjump(SUG_JUMP): the entry of the jump database with the highest rank
\* among those whose path contains the query (the text after the command)
dirjump(line) ==
    LET sp == strchr_from(line, 0, " ")
        query == IF sp = -1 THEN << >> ELSE Drop(line, sp + 1)
        cand == {k \in 1..Len(env.jump_db) :
                    query # << >> /\ strstr(env.jump_db[k].path, query) # -1}
    IN IF cand = {} THEN 0
       ELSE CHOOSE k \in cand :
              \A j \in cand : \/ env.jump_db[j].rank < env.jump_db[k].rank
                              \/ (env.jump_db[j].rank = env.jump_db[k].rank
                                  /\ j <= k)

check_jcmd(f, line) ==
    LET f1 == IF f.buf # NULL THEN clear_suggestion(f, CS_FREEBUF) ELSE f
        k  == dirjump(line)
    IN IF k = 0 THEN Ret(f1, NO_MATCH)
       ELSE LET f2 == [f1 EXCEPT !.sug.type = "JCMD_SUG",
                                 !.sug.filetype = "DT_DIR"]
                f3 == print_suggestion(f2, env.jump_db[k].path, 0)
            IN Ret(IF env.autocd = 0
                   THEN [f3 EXCEPT !.sug.type = "JCMD_SUG_NOACD"] ELSE f3,
                   PARTIAL_MATCH)

(***************************************************************************)
(* rl_suggestions: control flow.  A goto sets f.jump to its label; the     *)
(* statements that follow are skipped until the label is reached.          *)
(***************************************************************************)
Goto(f, label) == [f EXCEPT !.jump = label]

\* The source that supplied the match the call ends with
By(f, src) == [f EXCEPT !.obs.by = src]

\* `if (printed) goto SUCCESS;` after a source has been called
SuccessIfPrinted(f, src) ==
    IF f.printed # 0 THEN Goto(By(f, src), "SUCCESS") ELSE f

\* `if (printed == 1) goto SUCCESS;` after a source has been called
SuccessIfFound(f, src) ==
    IF f.printed = 1 THEN Goto(By(f, src), "SUCCESS") ELSE f

\* `if (printed) goto SUCCESS; else goto FAIL;`
SuccessOrFail(f, src) ==
    IF f.printed # 0 THEN Goto(By(f, src), "SUCCESS") ELSE Goto(f, "FAIL")

\* `if (printed) { zero_offset = 1; goto SUCCESS; }`
SuccessAtZeroOffset(f, src) ==
    IF f.printed # 0 THEN Goto(By([f EXCEPT !.zero_offset = 1], src), "SUCCESS")
    ELSE f

\* word[wlen - 1] = '\0' when the word ends with a space
cut_trailing_space(f) ==
    IF f.wlen > 0 /\ At(Word(f), f.wlen - 1) = " "
    THEN SetWord(f, Take(Word(f), f.wlen - 1)) ELSE f

\* word = ...; wlen = strlen(word);
PointWordAt(f, which) ==
    LET g == [f EXCEPT !.word = which] IN [g EXCEPT !.wlen = Len(Word(g))]

\* `if (flag == CHECK_MATCH && suggestion.printed) clear_suggestion(CS_FREEBUF);`
ClearIfCheck(f, flag) ==
    IF flag = CHECK_MATCH /\ f.sug.printed # 0
    THEN clear_suggestion(f, CS_FREEBUF) ELSE f

FileUriPrefix == << "f", "i", "l", "e", ":", "/", "/" >>

IS_FILE_URI(w) == Take(w, Len(FileUriPrefix)) = FileUriPrefix /\ At(w, 7) # NUL

first_is_non_file_internal(f) ==
    f.first_word # NULL /\ is_internal_c(f.first_word[1])
    /\ ~is_internal_f(f.first_word[1])

(***************************************************************************)
(* 3.d) The cases of the strategy switch                                   *)
(***************************************************************************)
strategy_a(f) ==
    LET flag == IF f.c = " " THEN CHECK_MATCH ELSE PRINT_MATCH
        f1 == ClearIfCheck(f, flag)
    IN SuccessIfPrinted(check_aliases(f1, Word(f1), f1.wlen, flag), "a")

strategy_b(f) ==
    IF f.last_space # -1 \/ env.autocd # 0 \/ env.auto_open # 0
    THEN LET flag == IF f.c = " " THEN CHECK_MATCH ELSE PRINT_MATCH
             f1 == ClearIfCheck(f, flag)
         IN SuccessIfPrinted(check_bookmarks(f1, Word(f1), f1.wlen, flag), "b")
    ELSE f

\* `if (printed) { if (flag == CHECK_MATCH) { if (printed == FULL_MATCH)
\* goto SUCCESS; } else goto SUCCESS; }`
SuccessIfCompleted(r, flag) ==
    IF r.printed # 0 /\ (flag # CHECK_MATCH \/ r.printed = FULL_MATCH)
    THEN Goto(By(r, "c"), "SUCCESS") ELSE r

strategy_c(f) ==
    IF f.point < rl_end(f) /\ f.c = "/" THEN Goto(f, "NO_SUGGESTION")
    ELSE IF f.last_space # -1 \/ env.autocd # 0 \/ env.auto_open # 0
    THEN IF first_is_non_file_internal(f) THEN Goto(f, "NO_SUGGESTION")
         ELSE
           LET f1 == IF f.nwords = 1
                     THEN PointWordAt(f, IF f.first_word # NULL
                                         THEN "first" ELSE "last")
                     ELSE f
               f2 == cut_trailing_space(f1)
               flag == IF f.c = " " THEN CHECK_MATCH ELSE PRINT_MATCH
               uri == f2.wlen > Len(FileUriPrefix) /\ IS_FILE_URI(Word(f2))
               f3 == IF uri THEN [f2 EXCEPT !.wlen = @ - Len(FileUriPrefix),
                                            !.lwo = @ + Len(FileUriPrefix)]
                     ELSE f2
               r == check_completions(f3, IF uri THEN Len(FileUriPrefix) ELSE 0,
                                      f3.wlen, f.c, flag)
           IN SuccessIfCompleted(r, flag)
    ELSE f

RECURSIVE strip_trailing_spaces(_, _)
strip_trailing_spaces(w, nlen) ==
    IF nlen > 0 /\ At(w, nlen - 1) = " "
    THEN strip_trailing_spaces(Take(w, nlen - 1), nlen - 1)
    ELSE [w |-> w, nlen |-> nlen]

strategy_e(f) ==
    LET f1 == IF f.nwords = 1 /\ f.first_word # NULL
              THEN PointWordAt(f, "first") ELSE f
    IN IF f1.wlen = 0 THEN f1
       ELSE
         LET a  == strip_trailing_spaces(Word(f1), f1.wlen)
             w2 == IF a.nlen > 0 /\ At(a.w, a.nlen - 1) = "&"
                   THEN Take(a.w, a.nlen - 1) ELSE a.w
             f2 == SetWord(f1, w2)
             flag == IF f.c = " " THEN CHECK_MATCH ELSE PRINT_MATCH
             f3 == ClearIfCheck(f2, flag)
         IN IF At(f3.line, 0) # ";" /\ At(f3.line, 0) # ":"
               /\ At(w2, 0) \in {"1", "2", "3", "4", "5", "6", "7", "8", "9"}
               /\ expand_eln(w2) = 1
            THEN SuccessIfFound(check_eln(f3, w2, flag), "e")
            ELSE f3

strategy_f(f) ==
    IF f.last_space # -1 \/ env.autocd # 0 \/ env.auto_open # 0
    THEN LET f1 == IF f.nwords = 1
                   THEN PointWordAt(f, IF f.first_word # NULL
                                          /\ f.first_word[1] # << >>
                                       THEN "first" ELSE "last")
                   ELSE f
         IN IF first_is_non_file_internal(f1) THEN Goto(f1, "NO_SUGGESTION")
            ELSE
              LET f2 == cut_trailing_space(f1)
                  f3 == IF f.c = " " /\ f2.sug.printed # 0
                        THEN clear_suggestion(f2, CS_FREEBUF) ELSE f2
              IN SuccessIfPrinted(
                     check_filenames(f3, f3.wlen, f.c,
                         IF f.last_space # -1 THEN 0 ELSE 1,
                         IF f.c = " " THEN 1 ELSE 0), "f")
    ELSE f

strategy_h(f) ==
    SuccessAtZeroOffset(check_history(f, f.line, rl_end(f)), "h")

strategy_j(f) ==
    IF f.last_space # -1 \/ env.autocd # 0
    THEN LET f1 == IF f.nwords = 1
                   THEN PointWordAt(f, IF f.first_word # NULL
                                          /\ f.first_word[1] # << >>
                                       THEN "first" ELSE "last")
                   ELSE f
             f2 == cut_trailing_space(f1)
             flag == IF f.c = " " \/ f.full_word # 0
                     THEN CHECK_MATCH ELSE PRINT_MATCH
             f3 == ClearIfCheck(f2, flag)
         IN SuccessIfPrinted(check_jumpdb(f3, Word(f3), f3.wlen, flag), "j")
    ELSE f

\* One iteration of the loop over suggestion_strategy
strategy_case(f, code) ==
    LET g == [f EXCEPT !.obs.tried = Append(@, code)]
    IN CASE code = "a" -> strategy_a(g)
         [] code = "b" -> strategy_b(g)
         [] code = "c" -> strategy_c(g)
         [] code = "e" -> strategy_e(g)
         [] code = "f" -> strategy_f(g)
         [] code = "h" -> strategy_h(g)
         [] code = "j" -> strategy_j(g)
         [] OTHER -> g

RECURSIVE strategy_loop(_, _)
strategy_loop(f, st) ==
    IF st >= SUG_STRATS \/ f.jump # "" THEN f
    ELSE strategy_loop(strategy_case(f, env.suggestion_strategy[st + 1]), st + 1)

(***************************************************************************)
(* 3.b) Non-fixed parameters of internal commands (the switch on *lb)       *)
(***************************************************************************)
\* The loops of cases 'c', 'n' and 'p': the first name with the word as a
\* prefix, printed from wlen on as a CMD_SUG
cmd_name_loop(f, table, first) ==
    LET i == FirstUp({k \in 1..Len(table) :
                 /\ first = At(table[k], 0)
                 /\ strncmp_eq(table[k], Word(f), f.wlen)})
    IN IF i = 0 THEN Ret(f, 0)
       ELSE Ret(print_suggestion([f EXCEPT !.sug.type = "CMD_SUG"],
                                 table[i], f.wlen), 1)

\* The parent path suggested whole, whatever the place of the match
backdir_keeps_whole_parent(bk_cwd, p) == bk_cwd

\* `pp = strchr(p, '/'); if (pp) *pp = '\0';`: the parent path bk_cwd cut at
\* the first '/' at or after the match at index p
backdir_cut(bk_cwd, p) ==
    LET pp == strchr_from(bk_cwd, p, "/")
    IN IF pp = -1 THEN bk_cwd ELSE Take(bk_cwd, pp)

switch_b(f) ==
    LET lb == f.line
    IN IF Len(env.bookmark_names) > 0 /\ At(lb, 1) = "m" /\ At(lb, 2) = " "
          /\ ~strncmp_eq(Drop(lb, 3), << "a", "d", "d" >>, 3)
       THEN SuccessIfPrinted(
                name_table_source(f, env.bookmark_names, Word(f), f.wlen,
                    "BM_NAME_SUG", env.case_sensitive = 0, TRUE), "bm")
       ELSE IF At(lb, 1) = "d" /\ At(lb, 2) = " " /\ At(lb, 3) # NUL
       THEN IF At(lb, 3) = "/" /\ At(lb, 4) = NUL
            THEN Goto(IF f.sug.printed # 0
                      THEN clear_suggestion(f, CS_FREEBUF) ELSE f, "FAIL")
            ELSE
              LET q == strrchr(env.cwd, "/")
                  bk_cwd == IF q = -1 THEN env.cwd ELSE Take(env.cwd, q)
                  p == strstr(bk_cwd, Drop(lb, 3))
              IN IF p = -1 THEN f
                 ELSE LET txt == backdir_cut(bk_cwd, p)
                          g == print_suggestion(
                                   [f EXCEPT !.sug.type = "BACKDIR_SUG"], txt, 0)
                      IN Goto(By(Ret(g, 1), "bd"), "SUCCESS")
       ELSE f

switch_c(f) ==
    IF Len(env.color_schemes) > 0 /\ At(f.line, 1) = "s" /\ At(f.line, 2) = " "
    THEN SuccessIfPrinted(
             cmd_name_loop(f, env.color_schemes, At(f.last_word[1], 0)), "cs")
    ELSE f

switch_j(f) ==
    LET lb == f.line
    IN IF At(lb, 1) = " " /\ At(lb, 2) = "-"
          /\ (At(lb, 3) = "h"
              \/ strncmp_eq(Drop(lb, 2), HelpFlag, Len(Drop(lb, 2))))
       THEN f
       ELSE IF At(lb, 1) = " "
               \/ (At(lb, 1) \in {"c", "o", "p"} /\ At(lb, 2) = " ")
       THEN SuccessOrFail(SuccessAtZeroOffset(check_jcmd(f, f.line), "jcmd"),
                          "jcmd")
       ELSE f

switch_n(f) ==
    IF Len(env.remotes) > 0 /\ At(f.line, 1) = "e" /\ At(f.line, 2) = "t"
       /\ At(f.line, 3) = " "
    THEN SuccessIfPrinted(cmd_name_loop(f, env.remotes, At(Word(f), 0)), "net")
    ELSE f

switch_p(f) ==
    LET lb == f.line
    IN IF Len(env.profile_names) > 0 /\ At(lb, 1) = "f" /\ At(lb, 2) = " "
          /\ (strncmp_eq(Drop(lb, 3), << "s", "e", "t" >>, 3)
              \/ strncmp_eq(Drop(lb, 3), << "d", "e", "l" >>, 3))
       THEN SuccessOrFail(
                cmd_name_loop(f, env.profile_names, At(Word(f), 0)), "pf")
       ELSE IF At(lb, 1) = "r" /\ strncmp_eq(lb, << "p", "r", "o", "m", "p", "t", " " >>, 7)
               /\ Len(env.prompts) > 0
       THEN SuccessIfFound(check_prompts(f, Word(f), f.wlen), "prompt")
       ELSE f

switch_s(f) ==
    LET lb == f.line
    IN IF ((At(lb, 1) = "t" /\ At(lb, 2) = " ")
           \/ strncmp_eq(lb, << "s", "o", "r", "t", " " >>, 5))
          /\ is_number(Word(f))
       THEN IF f.nwords > 2 THEN Goto(f, "FAIL")
            ELSE SuccessOrFail(check_sort_methods(f, Word(f), f.wlen), "sort")
       ELSE f

switch_t(f) ==
    LET lb == f.line
        w  == Word(f)
    IN IF (At(lb, 1) = "a" \/ At(lb, 1) = "u") /\ At(lb, 2) = " "
       THEN IF At(w, 0) = ":" /\ At(w, 1) # NUL
            THEN SuccessIfFound(
                     check_tags(f, Drop(w, 1), f.wlen - 1, "TAGC_SUG"), "tag")
            ELSE f
       ELSE IF At(lb, 1) \in {"l", "m", "n", "r", "y"} /\ At(lb, 2) = " "
       THEN IF At(w, 0) # NUL
            THEN SuccessIfFound(check_tags(f, w, f.wlen, "TAGS_SUG"), "tag")
            ELSE f
       ELSE f

switch_w(f) ==
    IF At(f.line, 1) = "s" /\ At(f.line, 2) = " "
    THEN IF f.nwords > 2 THEN Goto(f, "FAIL")
         ELSE SuccessIfPrinted(check_workspaces(f, Word(f), f.wlen), "ws")
    ELSE f

context_switch(f) ==
    LET ch == At(f.line, 0)
    IN CASE ch = "b" -> switch_b(f)
         [] ch = "c" -> switch_c(f)
         [] ch = "j" -> switch_j(f)
         [] ch = "n" -> switch_n(f)
         [] ch = "p" -> switch_p(f)
         [] ch = "s" -> switch_s(f)
         [] ch = "t" -> switch_t(f)
         [] ch = "w" -> switch_w(f)
         [] OTHER -> f

(***************************************************************************)
(* 3.c) Internal parameters: sel, fixed parameters, --help, $VAR, ~user     *)
(***************************************************************************)
SelKeyword == << "s", "e", "l" >>

\* Each step runs only while no goto has been taken
Then(f, Step(_)) == IF f.jump # "" THEN f ELSE Step(f)

check_sel(f) ==
    IF f.nwords > 1 /\ env.sel_n > 0 /\ At(Word(f), 0) = "s"
       /\ strncmp_eq(Word(f), SelKeyword, f.wlen)
    THEN Goto(By(Ret(print_suggestion([f EXCEPT !.sug.type = "SEL_SUG"],
                                      SelKeyword, f.wlen), 1), "sel"), "SUCCESS")
    ELSE f

check_fixed_params(f) ==
    IF f.nwords > 1
    THEN SuccessAtZeroOffset(check_int_params(f, f.line, rl_end(f)), "params")
    ELSE f

check_help_step(f) ==
    IF At(Word(f), 0) = "-"
    THEN SuccessIfPrinted(check_help(f, f.line, Word(f)), "help") ELSE f

check_variables_step(f) ==
    IF At(Word(f), 0) = "$"
    THEN SuccessIfPrinted(check_variables(f, Drop(Word(f), 1), f.wlen - 1), "var")
    ELSE f

check_users_step(f) ==
    IF At(Word(f), 0) = "~" /\ At(Word(f), 1) # "/"
    THEN SuccessIfPrinted(check_users(f, Drop(Word(f), 1), f.wlen - 1), "user")
    ELSE f

internal_params(f) ==
    Then(Then(Then(Then(check_sel(f), check_fixed_params), check_help_step),
              check_variables_step), check_users_step)

(***************************************************************************)
(* rl_suggestions: the sections before the search                          *)
(***************************************************************************)
\* Lines 1469-1507: last space, new-line recover, last word, word count,
\* first word, the word under edit, the jump for a cursor on the first word
recover_on_new_line(f) ==
    IF (rl_end(f) = 0 \/ f.c = NL) /\ f.wrong_cmd # 0
    THEN recover_from_wrong_cmd(f) ELSE f

locate_last_word(f, ls) == get_last_word([f EXCEPT !.last_space = ls], ls)

\* first_word: the text count_words delimited, cw is its result
first_word_of(line, cw) ==
    IF cw.full_word = 0 THEN NULL
    ELSE IF cw.start_word < cw.full_word
    THEN Some(SubSeq(line, cw.start_word + 1, cw.full_word))
    ELSE Some(Drop(line, cw.start_word))

\* The line once the first word has been copied: the byte at full_word is
\* set to NUL for the copy and then to a space
line_after_first_word(line, cw) ==
    IF cw.full_word = 0 THEN line ELSE cut_and_restore(line, cw.full_word)

set_words(f, cw) ==
    PointWordAt([f EXCEPT !.nwords = cw.words, !.full_word = cw.full_word,
                          !.start_word = cw.start_word,
                          !.first_word = first_word_of(f.line, cw),
                          !.line = line_after_first_word(f.line, cw)],
                IF cw.words = 1 /\ f.c # " " /\ cw.full_word # 0
                THEN "first" ELSE "last")

count_and_set_words(f) == set_words(f, count_words(f.line, f.color))

jump_if_on_first_word(f) ==
    IF f.nwords >= 2 /\ f.point <= f.full_word + 1
    THEN Goto([f EXCEPT !.pifw = 1], "CHECK_FIRST_WORD")
    ELSE [f EXCEPT !.pifw = 0]

locate_words(f) ==
    jump_if_on_first_word(
        count_and_set_words(
            locate_last_word(recover_on_new_line(f),
                             get_last_space(f.line, rl_end(f)))))

\* Lines 1509-1525: not at the end of the last word; '~' and '~/'
check_cursor_and_tilde(f) ==
    IF is_last_word(f) = 0 THEN Goto(By(f, "midline"), "SUCCESS")
    ELSE LET w == Word(f)
         IN IF At(w, 0) = "~"
               /\ (At(w, 1) = NUL \/ (At(w, 1) = "/" /\ At(w, 2) = NUL))
            THEN LET f1 == IF f.wrong_cmd # 0 THEN recover_from_wrong_cmd(f)
                           ELSE f
                     f2 == IF f1.sug.printed = 1 /\ f1.buf # NULL
                              /\ f1.sug.type = "HIST_SUG"
                              /\ ~strncmp_eq(f1.buf[1], f1.line, f1.point)
                           THEN clear_suggestion(f1, CS_FREEBUF) ELSE f1
                 IN Goto(By([f2 EXCEPT !.printed = 1, !.zero_offset = 1],
                            "tilde"), "SUCCESS")
            ELSE f

\* 3.a) The string already suggested still fits
check_already_suggested(f) ==
    IF f.buf # NULL /\ f.sug.printed # 0 /\ ~IS_DIGIT(f.c)
    THEN LET w == Word(f)
             b == f.buf[1]
         IN IF f.sug.type = "HIST_SUG" \/ f.sug.type = "INT_CMD"
            THEN IF (At(w, 0) # "j" \/ At(w, 1) # " ")
                    /\ At(f.line, 0) = At(b, 0)
                    /\ strncmp_eq(f.line, b, rl_end(f))
                 THEN Goto(By([f EXCEPT !.printed = 1, !.zero_offset = 1],
                              "kept"), "SUCCESS")
                 ELSE f
            ELSE IF f.sug.type # "ALIAS_SUG" /\ f.c # " "
                    /\ (IF env.case_sens_path_comp = 1
                        THEN At(w, 0) = At(b, 0) /\ strncmp_eq(w, b, f.wlen)
                        ELSE TOUPPER(At(w, 0)) = TOUPPER(At(b, 0))
                             /\ strncasecmp_eq(w, b, f.wlen))
            THEN Goto(By([f EXCEPT !.printed = 1], "kept"), "SUCCESS")
            ELSE f
    ELSE f

\* 3.d) and the t: tags that follow the loop
run_strategy(f) == strategy_loop([f EXCEPT !.obs.reached = TRUE], 0)

check_tag_expression(f) ==
    LET w == Word(f)
    IN IF At(f.line, 0) # ";" /\ At(f.line, 0) # ":" /\ At(w, 0) = "t"
          /\ At(w, 1) = ":" /\ At(w, 2) # NUL
       THEN SuccessIfFound(check_tags(f, Drop(w, 2), f.wlen - 2, "TAGT_SUG"),
                           "tag")
       ELSE f

\* 3.f) Commands are looked up for the first word only
only_first_word(f) ==
    IF f.nwords > 1 THEN Goto(f, "NO_SUGGESTION")
    ELSE Goto(f, "CHECK_FIRST_WORD")

search(f) ==
    Then(Then(Then(Then(Then(Then(Then(locate_words(f),
        check_cursor_and_tilde), check_already_suggested), context_switch),
        internal_params), run_strategy), check_tag_expression), only_first_word)

(***************************************************************************)
(* rl_suggestions: the labels                                              *)
(***************************************************************************)
\* The first words that are never looked up as commands
skips_command_check(f, w) ==
    \/ w = << >>
    \/ (f.c = " " /\ At(w, 0) \in {"'", "\"", "$", "#"})
    \/ At(w, 0) \in {"<", ">", "!", "{", "[", "(", "|", ";", "&"}
    \/ strchr_from(w, 0, "=") # -1
    \/ At(f.line, 0) = " "

\* access(word, X_OK) == 0
is_executable(w) == w \in env.executables

\* The branch of CHECK_FIRST_WORD that looks the word up among the command
\* names: the trailing space is cut and check_cmds runs
lookup_command_name(f) ==
    check_cmds(cut_trailing_space(f), f.wlen,
               IF f.c = " " \/ f.full_word # 0 THEN CHECK_MATCH
               ELSE PRINT_MATCH)

\* The branch of CHECK_FIRST_WORD taken once check_completions has run
\* (the cursor is on the first word and before the end of the line)
after_first_word_completions(cc) ==
    IF cc.printed # 0 THEN Ret(cc, 1) ELSE lookup_command_name(cc)

\* The if-chain of CHECK_FIRST_WORD that computes `printed`
first_word_lookup(f) ==
    IF f.pifw # 0 /\ At(Word(f), 0) = "/" /\ is_executable(Word(f))
    THEN Ret(f, 1)
    ELSE IF f.pifw # 0 /\ f.point < rl_end(f)
            /\ At(Word(f), 0) \in {"1", "2", "3", "4", "5", "6", "7", "8", "9"}
            /\ is_number(Word(f))
    THEN IF atoi(Word(f)) > 0 /\ atoi(Word(f)) <= Len(env.file_info)
         THEN Ret(f, 1) ELSE f
    ELSE IF f.pifw # 0 /\ f.point < rl_end(f)
    THEN after_first_word_completions(
             check_completions(f, 0, f.wlen, f.c, CHECK_MATCH))
    ELSE lookup_command_name(f)

\* The end of CHECK_FIRST_WORD: the word is a command (the warning prompt is
\* taken back) or it is not (the warning prompt is installed)
first_word_outcome(r) ==
    IF r.printed # 0
    THEN Goto(By(IF r.wrong_cmd # 0 /\ (r.nwords = 1 \/ r.pifw # 0)
                 THEN [recover_from_wrong_cmd([r EXCEPT !.dispatching = 1])
                         EXCEPT !.dispatching = 0]
                 ELSE r, "cmd"), "SUCCESS")
    ELSE Goto(IF At(Word(r), 0) # "/" \/ strchr_from(Word(r), 1, "/") # -1
              THEN print_warning_prompt(r, At(Word(r), 0), r.c)
              ELSE r, "NO_SUGGESTION")

\* CHECK_FIRST_WORD once `word` points at the first word; wlen0 is the
\* length the search left in wlen
check_first_word_at(f, wlen0) ==
    IF skips_command_check(f, Word(f))
    THEN Goto(IF f.sug.printed # 0 /\ f.buf # NULL
              THEN clear_suggestion([f EXCEPT !.wlen = wlen0], CS_FREEBUF)
              ELSE [f EXCEPT !.wlen = wlen0], "SUCCESS")
    ELSE first_word_outcome(first_word_lookup(f))

CHECK_FIRST_WORD(f) ==
    check_first_word_at(
        PointWordAt(f, IF f.first_word # NULL THEN "first" ELSE "last"),
        f.wlen)

NO_SUGGESTION(f) ==
    IF f.sug.printed # 0
    THEN IF strchr_from(Word(f), 0, ESC) = -1
         THEN Goto(clear_suggestion(f, CS_FREEBUF), "FAIL")
         ELSE Goto([f EXCEPT !.printed = 1], "SUCCESS")
    ELSE Goto(f, "SUCCESS")

SUCCESS(f) ==
    IF f.printed # 0
    THEN LET f1 == [f EXCEPT !.sug.offset = IF f.zero_offset # 0 THEN 0
                                            ELSE f.lwo]
             f2 == IF f1.printed = FULL_MATCH /\ f1.buf # NULL
                   THEN clear_suggestion(f1, CS_FREEBUF) ELSE f1
             f3 == IF f2.wrong_cmd = 1 /\ f2.nwords = 1
                   THEN [recover_from_wrong_cmd([f2 EXCEPT !.dispatching = 1])
                           EXCEPT !.dispatching = 0]
                   ELSE f2
         IN [f3 EXCEPT !.sug.printed = 1, !.obs.ret = EXIT_SUCCESS,
                       !.jump = "return"]
    ELSE [f EXCEPT !.sug.printed = 0, !.obs.ret = EXIT_SUCCESS,
                   !.jump = "return"]

FAIL(f) ==
    [f EXCEPT !.sug.printed = 0, !.buf = NULL, !.obs.ret = EXIT_FAILURE,
              !.jump = "return"]

\* Control runs from the label the search left to the return statement
RECURSIVE run_labels(_)
run_labels(f) ==
    CASE f.jump = "CHECK_FIRST_WORD" -> run_labels(CHECK_FIRST_WORD(f))
      [] f.jump = "NO_SUGGESTION"    -> run_labels(NO_SUGGESTION(f))
      [] f.jump = "SUCCESS"          -> SUCCESS(f)
      [] f.jump = "FAIL"             -> FAIL(f)
      [] OTHER                       -> f

(***************************************************************************)
(* rl_suggestions                                                          *)
(***************************************************************************)
rl_suggestions(f) ==
    IF At(f.line, 0) = "#" \/ f.color = "hc_c"
    THEN [(IF f.sug.printed # 0 THEN clear_suggestion(f, CS_FREEBUF) ELSE f)
            EXCEPT !.obs.ret = EXIT_SUCCESS, !.obs.by = "comment"]
    ELSE LET f1 == [f EXCEPT !.lwo = 0, !.comp = "TCMP_NONE"]
         IN IF rl_end(f1) = 0 /\ f1.point = 0
            THEN LET f2 == [f1 EXCEPT !.buf = NULL]
                 IN [(IF f2.wrong_cmd # 0 THEN recover_from_wrong_cmd(f2)
                      ELSE f2) EXCEPT !.obs.ret = EXIT_SUCCESS]
            ELSE run_labels(search(f1))

(***************************************************************************)
(* The environment loaded at startup: options and tables                   *)
(***************************************************************************)
\* DEF_SUG_STRATEGY
DefaultStrategy == << "e", "h", "f", "j", "b", "a", "c" >>

\* One command (q, internal, dealing with files), one regular file (xy),
\* both autocd and auto-open on
BaseEnv ==
    [suggestion_strategy |-> DefaultStrategy,
     history |-> << >>,
     file_info |-> << [name |-> << "x", "y" >>, dir |-> 0] >>,
     aliases |-> << >>,
     bin_commands |-> << << "q" >> >>,
     internal_cmds |-> {<< "q" >>},
     internal_f |-> {<< "q" >>},
     builtins |-> << >>,
     jump_db |-> << >>,
     bookmarks |-> << >>,
     param_str |-> << >>,
     environ |-> << >>,
     users |-> << >>,
     tags |-> << >>,
     prompts |-> << >>,
     ws_names |-> << >>,
     bookmark_names |-> << >>,
     color_schemes |-> << >>,
     remotes |-> << >>,
     profile_names |-> << >>,
     executables |-> {},
     cwd |-> << "/", "h", "/", "u" >>,
     sel_n |-> 0,
     autocd |-> 1, auto_open |-> 1, warning_prompt |-> 1, highlight |-> 0,
     case_sens_path_comp |-> 1, case_sensitive |-> 0, fuzzy_match |-> 0,
     vt100 |-> 0, ext_cmd_ok |-> 1]

\* The configurations the interactive model starts from
Profiles ==
    { BaseEnv,
      \* q does not deal with files; an alias xy
      [BaseEnv EXCEPT !.internal_f = {},
                      !.aliases = << [name |-> << "x", "y" >>,
                                      cmd |-> << "q", " ", "x" >>] >>],
      \* neither autocd nor auto-open; a history entry
      [BaseEnv EXCEPT !.autocd = 0, !.auto_open = 0,
                      !.history = << << "x", "q" >> >>],
      \* no warning prompt, syntax highlighting on
      [BaseEnv EXCEPT !.warning_prompt = 0, !.highlight = 1,
                      !.autocd = 0, !.auto_open = 0] }

(***************************************************************************)
(* The keys of the interactive model                                       *)
(***************************************************************************)
Alphabet == {"q", "x", " ", "#"}

NoSuggestion ==
    [printed |-> 0, type |-> "NO_SUG", offset |-> 0, nlines |-> 0,
     filetype |-> "DT_REG"]

\* The state when the prompt is first shown, in one of the configurations P
InitIn(P) ==
    /\ rl_line_buffer = << >>
    /\ rl_point = 0
    /\ wrong_cmd = 0
    /\ rl_prompt = "normal"
    /\ saved_prompt = "none"
    /\ suggestion = NoSuggestion
    /\ suggestion_buf = NULL
    /\ flags_baej = 0
    /\ cur_comp_type = "TCMP_NONE"
    /\ cur_color = "tx_c"
    /\ nwords = 0
    /\ point_is_first_word = 0
    /\ env \in P
    /\ obs = NoObs
    /\ startup = NotStarted

Init == InitIn(Profiles)

\* The globals after a call that ended with frame f
Commit(f) ==
    /\ rl_line_buffer' = f.line
    /\ rl_point' = f.point
    /\ wrong_cmd' = f.wrong_cmd
    /\ rl_prompt' = f.prompt
    /\ saved_prompt' = f.saved
    /\ suggestion' = f.sug
    /\ suggestion_buf' = f.buf
    /\ flags_baej' = f.baej
    /\ cur_comp_type' = f.comp
    /\ cur_color' = f.color
    /\ nwords' = f.nwords
    /\ point_is_first_word' = f.pifw
    /\ obs' = f.obs
    /\ UNCHANGED << env, startup >>

\* The frame of a call made once the editor has changed the line
Edited(c, line, point) ==
    LET f == [Frame(c) EXCEPT !.line = line, !.point = point]
    IN IF env.highlight = 1 THEN recolorize_line(f) ELSE f

\* The line is still being edited: Enter has not been pressed
Editing == obs.c # NL

\* insert(c), then the suggestion engine
Insert(c, bound) ==
    /\ Editing
    /\ Len(rl_line_buffer) < bound
    /\ Commit(rl_suggestions(Edited(c,
           Take(rl_line_buffer, rl_point) \o << c >>
               \o Drop(rl_line_buffer, rl_point),
           rl_point + 1)))

TypeChar(c) == Insert(c, MaxLen)

\* backspace, then the suggestion engine
Backspace ==
    /\ Editing
    /\ rl_point > 0
    /\ Commit(rl_suggestions(Edited(BS,
           Take(rl_line_buffer, rl_point - 1) \o Drop(rl_line_buffer, rl_point),
           rl_point - 1)))

\* move_left, move_right: the cursor only
MoveLeft ==
    /\ Editing
    /\ rl_point > 0
    /\ rl_point' = rl_point - 1
    /\ obs' = NoObs
    /\ UNCHANGED << rl_line_buffer, wrong_cmd, rl_prompt, saved_prompt,
                    suggestion, suggestion_buf, flags_baej, cur_comp_type,
                    cur_color, nwords, point_is_first_word, env, startup >>

MoveRight ==
    /\ Editing
    /\ rl_point < Len(rl_line_buffer)
    /\ rl_point' = rl_point + 1
    /\ obs' = NoObs
    /\ UNCHANGED << rl_line_buffer, wrong_cmd, rl_prompt, saved_prompt,
                    suggestion, suggestion_buf, flags_baej, cur_comp_type,
                    cur_color, nwords, point_is_first_word, env, startup >>

\* accept_line: the engine sees the new-line key, and the line is handed over
Enter ==
    /\ Editing
    /\ Commit(rl_suggestions(Edited(NL, rl_line_buffer, rl_point)))

Next ==
    \/ \E c \in Alphabet : TypeChar(c)
    \/ Backspace
    \/ MoveLeft
    \/ MoveRight
    \/ Enter

Spec == Init /\ [][Next]_vars

(***************************************************************************)
(* The model of the ELN source: two listed entries, a regular file and a   *)
(* directory, under the four settings of autocd and auto_open              *)
(***************************************************************************)
ElnLen == 3

ElnAlphabet == {"1", "2", "3", " "}

ElnEnv ==
    [BaseEnv EXCEPT !.file_info = << [name |-> << "x" >>, dir |-> 0],
                                     [name |-> << "y" >>, dir |-> 1] >>]

ElnProfiles ==
    {[ElnEnv EXCEPT !.autocd = a, !.auto_open = o] : a \in {0, 1}, o \in {0, 1}}

InitEln == InitIn(ElnProfiles)

TypeEln(c) == Insert(c, ElnLen)

NextEln ==
    \/ \E c \in ElnAlphabet : TypeEln(c)
    \/ Backspace
    \/ MoveLeft
    \/ MoveRight
    \/ Enter

SpecEln == InitEln /\ [][NextEln]_vars

(***************************************************************************)
(* The model of the history source: entries that share a prefix, in both   *)
(* orders, and a history compared without regard to case                   *)
(***************************************************************************)
HistLen == 3

HistAlphabet == {"g", "i", " "}

HistProfiles ==
    { [BaseEnv EXCEPT !.history = << << "g", "i", " ", "g" >>, << "g", "i" >> >>],
      [BaseEnv EXCEPT !.history = << << "g", "i" >>, << "g", "i", " ", "g" >> >>],
      [BaseEnv EXCEPT !.history = << << "G", "i", " ", "g" >> >>,
                      !.case_sens_path_comp = 0] }

InitHist == InitIn(HistProfiles)

TypeHist(c) == Insert(c, HistLen)

NextHist ==
    \/ \E c \in HistAlphabet : TypeHist(c)
    \/ Backspace
    \/ MoveLeft
    \/ MoveRight
    \/ Enter

SpecHist == InitHist /\ [][NextHist]_vars

(***************************************************************************)
(* The model of the alias source: an alias whose name has two letters, an  *)
(* alias with an empty expansion, two aliases that share a prefix          *)
(***************************************************************************)
AliasLen == 3

AliasAlphabet == {"a", "b", " "}

AliasProfiles ==
    { [BaseEnv EXCEPT !.aliases =
          << [name |-> << "a", "b" >>, cmd |-> << "b", " ", "a" >>],
             [name |-> << "b" >>, cmd |-> << >>] >>],
      [BaseEnv EXCEPT !.aliases =
          << [name |-> << "a", "b" >>, cmd |-> << "q" >>],
             [name |-> << "a" >>, cmd |-> << "q", " ", "x" >>] >>] }

InitAlias == InitIn(AliasProfiles)

TypeAlias(c) == Insert(c, AliasLen)

NextAlias ==
    \/ \E c \in AliasAlphabet : TypeAlias(c)
    \/ Backspace
    \/ MoveLeft
    \/ MoveRight
    \/ Enter

SpecAlias == InitAlias /\ [][NextAlias]_vars

(***************************************************************************)
(* The model of the file-in-CWD source: listings whose entries share a     *)
(* prefix, with an option for one kind of entry off, with fuzzy matching   *)
(* on, and compared without regard to case                                 *)
(***************************************************************************)
FileLen == 3

FileAlphabet == {"a", "b", " "}

FileProfiles ==
    { [BaseEnv EXCEPT !.file_info =
          << [name |-> << "b", "a" >>, dir |-> 0],
             [name |-> << "a", "b" >>, dir |-> 1],
             [name |-> << "a", "b", "b" >>, dir |-> 0] >>],
      [BaseEnv EXCEPT !.file_info =
          << [name |-> << "b", "a" >>, dir |-> 0],
             [name |-> << "a", "b" >>, dir |-> 1],
             [name |-> << "a", "b", "b" >>, dir |-> 0] >>,
                      !.auto_open = 0],
      [BaseEnv EXCEPT !.file_info =
          << [name |-> << "a", "a", "b" >>, dir |-> 0],
             [name |-> << "b", "a", "b" >>, dir |-> 1] >>,
                      !.fuzzy_match = 1],
      [BaseEnv EXCEPT !.file_info =
          << [name |-> << "A", "b" >>, dir |-> 0],
             [name |-> << "a", "b", "a" >>, dir |-> 1] >>,
                      !.case_sens_path_comp = 0] }

InitFile == InitIn(FileProfiles)

TypeFile(c) == Insert(c, FileLen)

NextFile ==
    \/ \E c \in FileAlphabet : TypeFile(c)
    \/ Backspace
    \/ MoveLeft
    \/ MoveRight
    \/ Enter

SpecFile == InitFile /\ [][NextFile]_vars

(***************************************************************************)
(* The model of the jump source: two visited directories, one below the    *)
(* other, in both orders, and a database compared without regard to case   *)
(***************************************************************************)
JumpLen == 3

JumpAlphabet == {"/", "a", "b", " "}

JumpProfiles ==
    { [BaseEnv EXCEPT !.jump_db = << [path |-> << "/", "a", "/", "b" >>],
                                     [path |-> << "/", "a" >>] >>],
      [BaseEnv EXCEPT !.jump_db = << [path |-> << "/", "a" >>],
                                     [path |-> << "/", "a", "/", "b" >>] >>],
      [BaseEnv EXCEPT !.jump_db = << [path |-> << "/", "A", "/", "b" >>] >>,
                      !.case_sens_path_comp = 0] }

InitJump == InitIn(JumpProfiles)

TypeJump(c) == Insert(c, JumpLen)

NextJump ==
    \/ \E c \in JumpAlphabet : TypeJump(c)
    \/ Backspace
    \/ MoveLeft
    \/ MoveRight
    \/ Enter

SpecJump == InitJump /\ [][NextJump]_vars

(***************************************************************************)
(* The model of the backdir suggestion: bd is a command and the current    *)
(* directory has ancestors with the same name at two depths                *)
(***************************************************************************)
BdLen == 4

BdAlphabet == {"b", "d", " ", "/"}

BdProfiles ==
    { [BaseEnv EXCEPT !.bin_commands = << << "b", "d" >> >>,
                      !.internal_cmds = {<< "b", "d" >>},
                      !.internal_f = {},
                      !.cwd = << "/", "d", "/", "b", "/", "d", "/", "b" >>] }

InitBd == InitIn(BdProfiles)

TypeBd(c) == Insert(c, BdLen)

NextBd ==
    \/ \E c \in BdAlphabet : TypeBd(c)
    \/ Backspace
    \/ MoveLeft
    \/ MoveRight
    \/ Enter

SpecBd == InitBd /\ [][NextBd]_vars

(***************************************************************************)
(* The model of `cd`: cd is a command dealing with files, and the listing  *)
(* holds a regular file before a directory of a similar name, with fuzzy   *)
(* matching on.  The line is typed and erased at its end.                  *)
(***************************************************************************)
CdLen == 6

CdAlphabet == {"c", "d", " ", ";"}

CdEnv ==
    [BaseEnv EXCEPT !.bin_commands = << << "c", "d" >> >>,
                    !.internal_cmds = {<< "c", "d" >>},
                    !.internal_f = {<< "c", "d" >>},
                    !.file_info = << [name |-> << "d", "c" >>, dir |-> 0],
                                     [name |-> << "d", "d" >>, dir |-> 1] >>]

\* Fuzzy matching is on: an entry is first looked for by prefix, then fuzzily
CdProfiles == {[CdEnv EXCEPT !.fuzzy_match = 1]}

InitCd == InitIn(CdProfiles)

TypeCd(c) == rl_point = Len(rl_line_buffer) /\ Insert(c, CdLen)

NextCd ==
    \/ \E c \in CdAlphabet : TypeCd(c)
    \/ Backspace
    \/ Enter

SpecCd == InitCd /\ [][NextCd]_vars

(***************************************************************************)
(* The model of --help: bd is an internal command, and the current         *)
(* directory lies below a directory with or without a '-' in its name.     *)
(* The line is typed and erased at its end.                                *)
(***************************************************************************)
HelpLen == 5

HelpAlphabet == {"b", "d", " ", "-"}

HelpEnv ==
    [BaseEnv EXCEPT !.bin_commands = << << "b", "d" >> >>,
                    !.internal_cmds = {<< "b", "d" >>},
                    !.internal_f = {}]

HelpProfiles ==
    { [HelpEnv EXCEPT !.cwd = << "/", "d", "/", "b" >>],
      [HelpEnv EXCEPT !.cwd = << "/", "d", "-", "/", "b" >>] }

InitHelp == InitIn(HelpProfiles)

TypeHelp(c) == rl_point = Len(rl_line_buffer) /\ Insert(c, HelpLen)

NextHelp ==
    \/ \E c \in HelpAlphabet : TypeHelp(c)
    \/ Backspace
    \/ Enter

SpecHelp == InitHelp /\ [][NextHelp]_vars

(***************************************************************************)
(* The model of the sources taken one at a time: a source is applied to a  *)
(* word, and then again to the text it suggested                           *)
(***************************************************************************)
OscLen == 2

OscAlphabet == {"a", "b", "1", "/"}

OscSources == {"a", "b", "e", "f", "h", "j"}

RECURSIVE OscWordsOfLen(_)
OscWordsOfLen(n) ==
    IF n = 0 THEN {<< >>}
    ELSE {Append(w, ch) : w \in OscWordsOfLen(n - 1), ch \in OscAlphabet}

OscWords == UNION {OscWordsOfLen(n) : n \in 1..OscLen}

OscProfiles ==
    { \* entries that lead to one another
      [BaseEnv EXCEPT
          !.aliases = << [name |-> << "a", "b" >>, cmd |-> << "b", "a" >>],
                         [name |-> << "b", "a" >>, cmd |-> << "a", "b" >>] >>,
          !.bookmarks = << [name |-> << "a" >>, path |-> << "b" >>,
                            dir |-> 0, exists |-> 1],
                           [name |-> << "b" >>, path |-> << "a" >>,
                            dir |-> 0, exists |-> 1] >>,
          !.file_info = << [name |-> << "2" >>, dir |-> 0],
                           [name |-> << "a", "b" >>, dir |-> 1],
                           [name |-> << "a", "b", "b" >>, dir |-> 0] >>,
          !.history = << << "a", "b", "1" >>, << "a", "1" >>, << "a", "b" >> >>,
          !.jump_db = << [path |-> << "/", "a", "/", "b" >>],
                         [path |-> << "/", "a" >>] >>],
      \* entries that lead nowhere else; names compared without regard to
      \* case, fuzzy matches allowed
      [BaseEnv EXCEPT
          !.aliases = << [name |-> << "a", "b" >>, cmd |-> << "1", "a" >>] >>,
          !.bookmarks = << [name |-> << "a" >>, path |-> << "/", "b" >>,
                            dir |-> 1, exists |-> 1] >>,
          !.file_info = << [name |-> << "b", "A", "b" >>, dir |-> 0],
                           [name |-> << "a", "b" >>, dir |-> 1] >>,
          !.history = << << "b", "a" >>, << "B", "a", "b" >> >>,
          !.jump_db = << [path |-> << "/", "b" >>] >>,
          !.case_sens_path_comp = 0, !.fuzzy_match = 1] }

InitOsc == InitIn(OscProfiles)

\* The frame of a source called on the one-word line w
OscFrame(S, w) ==
    [Frame(w[Len(w)]) EXCEPT !.line = w, !.point = Len(w), !.nwords = 1,
                             !.last_word = Some(w), !.wlen = Len(w),
                             !.sug = NoSuggestion, !.buf = NULL,
                             !.obs.by = S]

\* Source S on the word w
RunSource(S, w) ==
    LET f == OscFrame(S, w)
    IN CASE S = "a" -> check_aliases(f, w, Len(w), PRINT_MATCH)
         [] S = "b" -> check_bookmarks(f, w, Len(w), PRINT_MATCH)
         [] S = "e" -> check_eln(f, w, PRINT_MATCH)
         [] S = "f" -> check_filenames(f, Len(w), w[Len(w)], 1, 0)
         [] S = "h" -> check_history(f, w, Len(w))
         [] S = "j" -> check_jumpdb(f, w, Len(w), PRINT_MATCH)

\* A source is run on a word
SuggestFor(S, w) ==
    /\ Commit([RunSource(S, w) EXCEPT !.obs.tried = << >>])

\* The suggested text is accepted, and the same source is run on it
AcceptAndRerun ==
    /\ suggestion_buf # NULL
    /\ obs.by \in OscSources
    /\ obs.tried = << >>
    /\ Commit([RunSource(obs.by, suggestion_buf[1])
                  EXCEPT !.obs.tried = << obs.by >>])

NextOsc ==
    \/ \E S \in OscSources, w \in OscWords : SuggestFor(S, w)
    \/ AcceptAndRerun

SpecOsc == InitOsc /\ [][NextOsc]_vars

(***************************************************************************)
(* The model of a repeated call: after any key, rl_suggestions may be      *)
(* called once more with the same key on the untouched line.  The word     *)
(* boundaries each call computed are kept with the observations.           *)
(***************************************************************************)
TwiceLen == 4

TwiceAlphabet == {"x", " ", ";"}

\* The warning prompt is on, with and without syntax highlighting
TwiceProfiles ==
    { BaseEnv, [BaseEnv EXCEPT !.highlight = 1] }

InitTwice == InitIn(TwiceProfiles)

\* The globals after a call, together with the boundaries it computed and
\* whether it was the first or the second call on this line and key
CommitSeen(f, n) ==
    Commit([f EXCEPT !.obs = f.obs @@ [start_word |-> f.start_word,
                                       full_word |-> f.full_word,
                                       calls |-> n]])

TypeTwice(c) ==
    /\ Editing
    /\ Len(rl_line_buffer) < TwiceLen
    /\ CommitSeen(rl_suggestions(Edited(c,
           Take(rl_line_buffer, rl_point) \o << c >>
               \o Drop(rl_line_buffer, rl_point),
           rl_point + 1)), 1)

BackspaceTwice ==
    /\ Editing
    /\ rl_point > 0
    /\ CommitSeen(rl_suggestions(Edited(BS,
           Take(rl_line_buffer, rl_point - 1) \o Drop(rl_line_buffer, rl_point),
           rl_point - 1)), 1)

EnterTwice ==
    /\ Editing
    /\ CommitSeen(rl_suggestions(Edited(NL, rl_line_buffer, rl_point)), 1)

\* rl_suggestions once more: the same key, the line and the cursor as the
\* last call left them
CallAgain ==
    /\ obs.c # NUL
    /\ obs.calls = 1
    /\ CommitSeen(rl_suggestions(Frame(obs.c)), 2)

NextTwice ==
    \/ \E c \in TwiceAlphabet : TypeTwice(c)
    \/ BackspaceTwice
    \/ MoveLeft
    \/ EnterTwice
    \/ CallAgain

SpecTwice == InitTwice /\ [][NextTwice]_vars

(***************************************************************************)
(* The model of the edit buffer across a call: `q` is an internal          *)
(* command, the warning prompt is on, with and without syntax highlighting *)
(***************************************************************************)
FrameLen == 4

FrameAlphabet == {"q", " ", "-"}

FrameProfiles ==
    { BaseEnv, [BaseEnv EXCEPT !.highlight = 1] }

InitFrame == InitIn(FrameProfiles)

TypeFrame(c) == Insert(c, FrameLen)

NextFrame ==
    \/ \E c \in FrameAlphabet : TypeFrame(c)
    \/ Backspace
    \/ MoveLeft
    \/ MoveRight
    \/ Enter

SpecFrame == InitFrame /\ [][NextFrame]_vars

(***************************************************************************)
(* The model of count_words taken alone: it is applied to each line of a   *)
(* bounded set                                                             *)
(***************************************************************************)
WordsLen == 4

WordsAlphabet == {"x", " ", "|", ";", "&", "\"", "'"}

RECURSIVE LinesOfLen(_)
LinesOfLen(n) ==
    IF n = 0 THEN {<< >>}
    ELSE {Append(l, ch) : l \in LinesOfLen(n - 1), ch \in WordsAlphabet}

WordsLines == UNION {LinesOfLen(n) : n \in 1..WordsLen}

\* The line is there, the cursor at its end
InitWords ==
    /\ rl_line_buffer \in WordsLines
    /\ rl_point = Len(rl_line_buffer)
    /\ wrong_cmd = 0
    /\ rl_prompt = "normal"
    /\ saved_prompt = "none"
    /\ suggestion = NoSuggestion
    /\ suggestion_buf = NULL
    /\ flags_baej = 0
    /\ cur_comp_type = "TCMP_NONE"
    /\ cur_color = "tx_c"
    /\ nwords = 0
    /\ point_is_first_word = 0
    /\ env = BaseEnv
    /\ obs = NoObs
    /\ startup = NotStarted

\* `nwords = count_words(&start_word, &full_word);`
CountWords ==
    /\ obs.c = NUL
    /\ LET cw == count_words(rl_line_buffer, cur_color)
       IN /\ nwords' = cw.words
          /\ obs' = [NoObs EXCEPT !.c = rl_line_buffer[Len(rl_line_buffer)],
                                  !.by = "count_words"]
                    @@ [start_word |-> cw.start_word,
                        full_word |-> cw.full_word,
                        last_word_start |-> cw.last_word_start]
    /\ UNCHANGED << rl_line_buffer, rl_point, wrong_cmd, rl_prompt,
                    saved_prompt, suggestion, suggestion_buf, flags_baej,
                    cur_comp_type, cur_color, point_is_first_word, env,
                    startup >>

NextWords == CountWords

SpecWords == InitWords /\ [][NextWords]_vars

(***************************************************************************)
(* init.c.  A function of init.c is studied on its own: startup holds its  *)
(* input and the globals it sets, and the globals of suggestions.c stay as *)
(* they are when the program starts.                                       *)
(***************************************************************************)
InitStartup(inputs) ==
    /\ rl_line_buffer = << >>
    /\ rl_point = 0
    /\ wrong_cmd = 0
    /\ rl_prompt = "normal"
    /\ saved_prompt = "none"
    /\ suggestion = NoSuggestion
    /\ suggestion_buf = NULL
    /\ flags_baej = 0
    /\ cur_comp_type = "TCMP_NONE"
    /\ cur_color = "tx_c"
    /\ nwords = 0
    /\ point_is_first_word = 0
    /\ env = BaseEnv
    /\ obs = NoObs
    /\ startup \in inputs

\* The step of a startup function: nothing of suggestions.c changes
StartupStep ==
    UNCHANGED << rl_line_buffer, rl_point, wrong_cmd, rl_prompt, saved_prompt,
                 suggestion, suggestion_buf, flags_baej, cur_comp_type,
                 cur_color, nwords, point_is_first_word, env, obs >>

\* All the sequences of at most n elements of S
RECURSIVE SeqsUpTo(_, _)
SeqsUpTo(S, n) ==
    IF n = 0 THEN {<< >>}
    ELSE LET shorter == SeqsUpTo(S, n - 1)
         IN shorter \cup {Append(q, x) : q \in shorter, x \in S}

(***************************************************************************)
(* load_jumpdb                                                             *)
(***************************************************************************)
INT_MIN == -2147483647 - 1

\* `a == INT_MIN ? 0 : a`
int_or_zero(a) == IF a = INT_MIN THEN 0 ELSE a

\* The line without its final new-line character
chomp(line) ==
    IF Len(line) > 0 /\ line[Len(line)] = NL
    THEN SubSeq(line, 1, Len(line) - 1) ELSE line

\* The first loop: the lines that start with a digit are counted
jump_lines_of(file) ==
    Cardinality({k \in 1..Len(file) :
                    At(file[k], 0) # NL /\ IS_DIGIT(At(file[k], 0))})

\* The part of the loop body after the new-line was removed from a line that
\* starts with a digit: the record the line adds, or NULL.  `exists` is the
\* set of the paths access() finds.
jump_record_of(line, exists) ==
    LET c1 == strchr_from(line, 0, ":")
    IN IF c1 = -1 \/ At(line, c1 + 1) = NUL THEN NULL
       ELSE
       LET visits == IF is_number(Take(line, c1))
                     THEN int_or_zero(atoi(Take(line, c1))) ELSE 1
           c2 == strchr_from(line, c1 + 1, ":")
       IN IF c2 = -1 \/ At(line, c2 + 1) = NUL THEN NULL
          ELSE
          LET tmp == SubSeq(line, c1 + 2, c2)
              first == IF is_number(tmp) THEN int_or_zero(atoi(tmp)) ELSE 0
              c3 == strchr_from(line, c2 + 1, ":")
          IN IF c3 = -1 \/ At(line, c3 + 1) = NUL THEN NULL
             ELSE
             LET tmpb == SubSeq(line, c2 + 2, c3)
                 tmpc == Drop(line, c3 + 1)
             IN IF tmpc \notin exists THEN NULL
                ELSE Some([visits |-> visits, first_visit |-> first,
                           last_visit |-> IF is_number(tmpb)
                                          THEN int_or_zero(atoi(tmpb)) ELSE 0,
                           keep |-> 0, rank |-> 0, path |-> tmpc])

\* One iteration of the second loop, had it no call to access(): the record
\* of a directory that is gone is kept
jump_line_step_unpurged(st, line) ==
    IF line = << >> \/ line[1] = NL \/ line[1] = "#" THEN st
    ELSE IF line[1] = "@"
    THEN IF is_number(Drop(chomp(line), 1))
         THEN [st EXCEPT !.jump_total_rank =
                            int_or_zero(atoi(Drop(chomp(line), 1)))]
         ELSE st
    ELSE IF ~IS_DIGIT(line[1]) THEN st
    ELSE LET r == jump_record_of(chomp(line),
                                 {Drop(line, k) : k \in 0..Len(line)})
         IN IF r = NULL THEN st
            ELSE [st EXCEPT !.jump_db = Append(st.jump_db, r[1]),
                            !.jump_n = st.jump_n + 1]

\* One iteration of the second loop
jump_line_step(st, line) ==
    IF line = << >> \/ line[1] = NL \/ line[1] = "#" THEN st
    ELSE IF line[1] = "@"
    THEN IF is_number(Drop(chomp(line), 1))
         THEN [st EXCEPT !.jump_total_rank =
                            int_or_zero(atoi(Drop(chomp(line), 1)))]
         ELSE st
    ELSE IF ~IS_DIGIT(line[1]) THEN st
    ELSE LET r == jump_record_of(chomp(line), st.exists)
         IN IF r = NULL THEN st
            ELSE [st EXCEPT !.jump_db = Append(st.jump_db, r[1]),
                            !.jump_n = st.jump_n + 1]

RECURSIVE jump_lines_loop(_, _)
jump_lines_loop(st, k) ==
    IF k > Len(st.file) THEN st
    ELSE jump_lines_loop(jump_line_step(st, st.file[k]), k + 1)

load_jumpdb(st) ==
    IF st.no_dirjump = 1 \/ st.config_ok = 0 THEN st
    ELSE IF ~st.readable THEN st
    ELSE IF jump_lines_of(st.file) = 0 THEN st
    ELSE LET s1 == jump_lines_loop(
                      [st EXCEPT !.slots = jump_lines_of(st.file) + 2], 1)
         IN IF s1.jump_n = 0 THEN [s1 EXCEPT !.slots = 0] ELSE s1

(***************************************************************************)
(* The model of load_jumpdb: jump.cfm holds up to JumpFileLen lines taken  *)
(* from records of directories that exist or not, a comment, a rank        *)
(* header, an empty line and a record cut short                            *)
(***************************************************************************)
JumpFileLen == 3

JumpFileLines ==
    { << "1", "2", ":", "3", ":", "2", "1", ":", "/", "a", NL >>,
      << "2", ":", "1", ":", "1", ":", "/", "b", NL >>,
      << "3", ":", "1", ":", "2", ":", "/", "a", ":", "b", NL >>,
      << "#", "1", ":", "1", ":", "1", ":", "/", "a", NL >>,
      << "@", "1", "7", NL >>,
      << NL >>,
      << "1", ":", "2", ":", "/", "a", NL >> }

\* The directories that exist
JumpExisting == { << "/", "a" >>, << "/", "a", ":", "b" >> }

JumpDbInputs ==
    { [fn |-> "load_jumpdb", done |-> FALSE, file |-> file,
       exists |-> JumpExisting, readable |-> r, no_dirjump |-> nd,
       config_ok |-> 1, jump_db |-> << >>, jump_n |-> 0, slots |-> 0,
       jump_total_rank |-> 0] :
         file \in SeqsUpTo(JumpFileLines, JumpFileLen),
         r \in BOOLEAN, nd \in {0, 1} }

InitJumpDb == InitStartup(JumpDbInputs)

LoadJumpDb ==
    /\ startup.fn = "load_jumpdb"
    /\ ~startup.done
    /\ startup' = [load_jumpdb(startup) EXCEPT !.done = TRUE]
    /\ StartupStep

NextJumpDb == LoadJumpDb

SpecJumpDb == InitJumpDb /\ [][NextJumpDb]_vars

(***************************************************************************)
(* check_options                                                           *)
(*                                                                         *)
(* Four of the options stand for all of them: check_cap for those filled   *)
(* from the default alone, autocd for those filled from the command line,  *)
(* and the two whose code has a shape of its own, control_d_exits and      *)
(* autojump.  opts holds the option variables, xargs the values of the     *)
(* command line and def the DEF_ macros the program was built with.        *)
(***************************************************************************)
UNSET == -1

\* `if (x == UNSET) x = DEF_X;`
default_if_unset(x, def) == IF x = UNSET THEN def ELSE x

\* `if (x == UNSET) { if (xargs.x == UNSET) x = DEF_X; else x = xargs.x; }`
xarg_or_default_if_unset(x, xarg, def) ==
    IF x = UNSET THEN (IF xarg = UNSET THEN def ELSE xarg) ELSE x

\* `if (xargs.control_d_exits == UNSET) control_d_exits = DEF_...;`
set_control_d_exits(st) ==
    IF st.xargs.control_d_exits = UNSET
    THEN [st EXCEPT !.opts.control_d_exits = st.def.control_d_exits]
    ELSE st

set_check_cap(st) ==
    [st EXCEPT !.opts.check_cap =
        default_if_unset(st.opts.check_cap, st.def.check_cap)]

set_autocd(st) ==
    [st EXCEPT !.opts.autocd =
        xarg_or_default_if_unset(st.opts.autocd, st.xargs.autocd,
                                 st.def.autocd)]

set_autojump(st) ==
    IF st.opts.autojump = UNSET
    THEN LET s1 == [st EXCEPT !.opts.autojump =
                       IF st.xargs.autojump = UNSET THEN st.def.autojump
                       ELSE st.xargs.autojump]
         IN IF s1.opts.autojump = 1 THEN [s1 EXCEPT !.opts.autocd = 1]
            ELSE s1
    ELSE st

check_options(st) ==
    set_autojump(set_autocd(set_check_cap(set_control_d_exits(st))))

\* The options under study
OptionNames == {"control_d_exits", "check_cap", "autocd", "autojump"}

\* What the command line can have given: --no-file-cap, --no-cd-auto and
\* --autojump store 0, --control-d-exits stores 1
XargsGiven ==
    { [control_d_exits |-> cde, check_cap |-> cc, autocd |-> acd,
       autojump |-> aj] :
         cde \in {UNSET, 1}, cc \in {UNSET, 0}, acd \in {UNSET, 0},
         aj \in {UNSET, 0} }

\* The command line stores its value in the option variable too, and the
\* configuration file gives an option 0 or 1 or leaves it as it is
OptionsInputs ==
    UNION { { [fn |-> "check_options", done |-> FALSE, opts |-> o,
               entry |-> o, xargs |-> x, def |-> d] :
                 o \in {v \in [OptionNames -> {UNSET, 0, 1}] :
                           \A n \in OptionNames :
                               x[n] # UNSET => v[n] # UNSET},
                 d \in [OptionNames -> {0, 1}] } : x \in XargsGiven }

InitOptions == InitStartup(OptionsInputs)

CheckOptions ==
    /\ startup.fn = "check_options"
    /\ ~startup.done
    /\ startup' = [check_options(startup) EXCEPT !.done = TRUE]
    /\ StartupStep

NextOptions == CheckOptions

SpecOptions == InitOptions /\ [][NextOptions]_vars

(***************************************************************************)
(* get_sys_shell                                                           *)
(***************************************************************************)
\* ret is what readlinkat() returned and link what it stored
get_sys_shell(ret, link) ==
    IF link = << >> \/ ret = -1 THEN "SHELL_NONE"
    ELSE LET p == strrchr(link, "/")
             s == IF p # -1 /\ At(link, p + 1) # NUL
                  THEN Drop(link, p + 1) ELSE link
         IN IF s = << "b", "a", "s", "h" >> THEN "SHELL_BASH"
            ELSE IF s = << "d", "a", "s", "h" >> THEN "SHELL_DASH"
            ELSE IF s = << "f", "i", "s", "h" >> THEN "SHELL_FISH"
            ELSE IF s = << "z", "s", "h" >> THEN "SHELL_ZSH"
            ELSE "SHELL_NONE"

(***************************************************************************)
(* The model of get_sys_shell: /bin/sh is no link, or a link to a program  *)
(* of ShellPrograms in a directory of ShellDirs                            *)
(***************************************************************************)
ShellPrograms ==
    { << "b", "a", "s", "h" >>, << "d", "a", "s", "h" >>,
      << "f", "i", "s", "h" >>, << "k", "s", "h" >>,
      << "t", "c", "s", "h" >>, << "z", "s", "h" >>,
      << "a", "s", "h" >>, << "b", "a", "s", "h", "5" >>,
      << "b", "u", "s", "y", "b", "o", "x" >>, << "s", "h" >> }

ShellDirs ==
    { << >>, << "/" >>, << ".", "/" >>, << "/", "b", "i", "n", "/" >>,
      << "/", "u", "s", "r", "/", "b", "i", "n", "/" >>,
      << "/", "o", "p", "t", "/", "z", "s", "h", "/" >> }

ShellInputs ==
    { [fn |-> "get_sys_shell", done |-> FALSE, ret |-> -1, link |-> << >>,
       shell |-> "SHELL_NONE"] }
    \cup { [fn |-> "get_sys_shell", done |-> FALSE, ret |-> Len(d \o n),
             link |-> d \o n, shell |-> "SHELL_NONE"] :
               d \in ShellDirs, n \in ShellPrograms }

InitShell == InitStartup(ShellInputs)

\* `shell = get_sys_shell();`
GetSysShell ==
    /\ startup.fn = "get_sys_shell"
    /\ ~startup.done
    /\ startup' = [startup EXCEPT !.shell = get_sys_shell(startup.ret,
                                                         startup.link),
                                  !.done = TRUE]
    /\ StartupStep

NextShell == GetSysShell

SpecShell == InitShell /\ [][NextShell]_vars

(***************************************************************************)
(* external_arguments                                                      *)
(*                                                                         *)
(* The command line is a sequence of words.  getopt_long (libc) is         *)
(* modelled by what it does with the option string of the call, which      *)
(* begins with `+`: it stops at the first word that is no option, takes    *)
(* the word after an option that requires an argument for that argument,   *)
(* and returns `?` for an option it does not know and for an option whose  *)
(* argument is missing.                                                    *)
(***************************************************************************)
\* Options without argument that only store a value (`-x`, `-y`, ...)
PlainOptions == {"-x"}

\* Options that require an argument (`-w N`, `-p PATH`, ...)
ArgumentOptions == {"-w"}

\* Options that make the program print something and exit (`-v`, `-h`)
ExitingOptions == {"-v"}

\* `case 'w'`: the workspace given with -w
workspace_option(optarg, ws) ==
    IF ~is_number(optarg) THEN ws
    ELSE IF atoi(optarg) >= 0 /\ atoi(optarg) <= MAX_WS
    THEN atoi(optarg) - 1 ELSE ws

\* `case '?'`, had it an exit status of its own
unrecognized_option_exits_2(st) ==
    [st EXCEPT !.exited = TRUE, !.status = 2, !.reason = "usage"]

\* `case '?'`: every branch ends in exit(EXIT_FAILURE)
unrecognized_option(st) ==
    [st EXCEPT !.exited = TRUE, !.status = EXIT_FAILURE, !.reason = "usage"]

\* The loop around getopt_long, from word i of the command line on
RECURSIVE options_loop(_, _)
options_loop(st, i) ==
    IF i > Len(st.argv) THEN [st EXCEPT !.optind = i]
    ELSE LET w == st.argv[i]
         IN IF w \in PlainOptions THEN options_loop(st, i + 1)
            ELSE IF w \in ExitingOptions
            THEN [st EXCEPT !.exited = TRUE, !.status = EXIT_SUCCESS,
                            !.reason = "version"]
            ELSE IF w \in ArgumentOptions
            THEN IF i = Len(st.argv) THEN unrecognized_option(st)
                 ELSE options_loop(
                        [st EXCEPT !.cur_ws =
                            workspace_option(st.words[st.argv[i + 1]],
                                             st.cur_ws)], i + 2)
            ELSE IF At(st.words[w], 0) = "-" THEN unrecognized_option(st)
            ELSE [st EXCEPT !.optind = i]

\* The positional parameter: a directory to start in, or a file to open
positional_parameter(st) ==
    IF st.optind > Len(st.argv) THEN st
    ELSE LET w == st.argv[st.optind]
         IN IF w \notin st.files
            THEN [st EXCEPT !.exited = TRUE, !.status = EXIT_FAILURE,
                            !.reason = "stat"]
            ELSE IF w \notin st.dirs
            THEN [st EXCEPT !.exited = TRUE, !.status = st.open_file,
                            !.reason = "open_reg_exit"]
            ELSE [st EXCEPT !.path = w]

external_arguments(st) ==
    LET s1 == options_loop(st, 1)
    IN IF s1.exited THEN s1 ELSE positional_parameter(s1)

(***************************************************************************)
(* The model of external_arguments: command lines of up to ArgLen words    *)
(***************************************************************************)
ArgLen == 3

\* The words of the command lines, with their characters
ArgWords ==
    [w \in {"-x", "-w", "-v", "-!", "--bogus", "2", "/dir", "/gone", "/file"}
        |-> CASE w = "-x" -> << "-", "x" >>
              [] w = "-w" -> << "-", "w" >>
              [] w = "-v" -> << "-", "v" >>
              [] w = "-!" -> << "-", "!" >>
              [] w = "--bogus" -> << "-", "-", "b", "o", "g", "u", "s" >>
              [] w = "2" -> << "2" >>
              [] w = "/dir" -> << "/", "d", "i", "r" >>
              [] w = "/gone" -> << "/", "g", "o", "n", "e" >>
              [] w = "/file" -> << "/", "f", "i", "l", "e" >>]

ArgsInputs ==
    { [fn |-> "external_arguments", done |-> FALSE, argv |-> a,
       words |-> ArgWords, files |-> {"/dir", "/file"}, dirs |-> {"/dir"},
       open_file |-> of, exited |-> FALSE, status |-> EXIT_SUCCESS,
       reason |-> "none", optind |-> 1, cur_ws |-> UNSET, path |-> ""] :
         a \in SeqsUpTo(DOMAIN ArgWords, ArgLen),
         of \in {EXIT_SUCCESS, EXIT_FAILURE} }

InitArgs == InitStartup(ArgsInputs)

ExternalArguments ==
    /\ startup.fn = "external_arguments"
    /\ ~startup.done
    /\ startup' = [external_arguments(startup) EXCEPT !.done = TRUE]
    /\ StartupStep

NextArgs == ExternalArguments

SpecArgs == InitArgs /\ [][NextArgs]_vars

(***************************************************************************)
(* get_aliases                                                             *)
(***************************************************************************)
\* strbtw (strings.c): the text of str between the first `a` and the next
\* `b` after it, NULL when one of them is missing or nothing is between
strbtw(str, a, b) ==
    LET i == strchr_from(str, 0, a)
        j == IF i = -1 THEN -1 ELSE strchr_from(str, i + 1, b)
    IN IF i = -1 \/ j = -1 \/ j = i + 1 THEN NULL
       ELSE Some(SubSeq(str, i + 2, j))

\* A test that finds no name in the table
alias_name_is_new(aliases, s) == FALSE

\* "Skip duplicated aliases names": some entry of the table bears the name
alias_name_exists(aliases, s) ==
    \E i \in 1..Len(aliases) :
        aliases[i].name # NULL /\ aliases[i].name[1] = s

\* The body of the loop for one line of the configuration file.  spare is
\* the name stored in the slot after the last entry.
get_aliases_line(st, line) ==
    IF ~strncmp_eq(line, << "a", "l", "i", "a", "s", " " >>, 6) THEN st
    ELSE LET sp == strchr_from(line, 0, " ")
         IN IF sp = -1 \/ At(line, sp + 1) = NUL THEN st
            ELSE
            LET eq == strchr_from(line, sp + 1, "=")
            IN IF eq = -1 \/ At(line, eq + 1) = NUL THEN st
               ELSE
               LET s == SubSeq(line, sp + 2, eq)
                   p == Drop(line, eq + 1)
               IN IF alias_name_exists(st.aliases, s) THEN st
                  ELSE IF p[1] = "'" \/ p[1] = "\""
                  THEN [st EXCEPT
                          !.aliases = Append(st.aliases,
                                         [name |-> Some(s),
                                          cmd |-> strbtw(p, p[1], p[1])]),
                          !.aliases_n = st.aliases_n + 1,
                          !.spare = NULL]
                  ELSE [st EXCEPT !.spare = Some(s)]

RECURSIVE get_aliases_loop(_, _)
get_aliases_loop(st, k) ==
    IF k > Len(st.file) THEN st
    ELSE get_aliases_loop(get_aliases_line(st, st.file[k]), k + 1)

get_aliases(st) ==
    IF st.config_ok = 0 THEN st
    ELSE IF ~st.readable THEN st
    ELSE get_aliases_loop(
            IF st.aliases_n # 0
            THEN [st EXCEPT !.aliases = << >>, !.aliases_n = 0]
            ELSE st, 1)

(***************************************************************************)
(* The model of get_aliases: a configuration file of up to AliasFileLen    *)
(* lines, read at startup or when the configuration is reloaded            *)
(***************************************************************************)
AliasFileLen == 3

AliasFileLines ==
    { << "a", "l", "i", "a", "s", " ", "x", "=", "'", "a", "'", NL >>,
      << "a", "l", "i", "a", "s", " ", "x", "=", "\"", "b", "\"", NL >>,
      << "a", "l", "i", "a", "s", " ", "y", "=", "'", "c", "'", NL >>,
      << "a", "l", "i", "a", "s", " ", "x", "=", "d", NL >>,
      << "a", "l", "i", "a", "s", " ", "y", "=", "e", NL >>,
      << "a", "l", "i", "a", "s", " ", "x", NL >>,
      << "A", "u", "t", "o", "c", "d", "=", "'", "a", "'", NL >> }

\* The table before the call: empty, or what an earlier call has stored
AliasTablesBefore ==
    { << >>, << [name |-> Some(<< "x" >>), cmd |-> Some(<< "z" >>)] >> }

AliasesInputs ==
    { [fn |-> "get_aliases", done |-> FALSE, file |-> f, readable |-> r,
       config_ok |-> ok, aliases |-> t, aliases_n |-> Len(t),
       spare |-> NULL, before |-> t] :
         f \in SeqsUpTo(AliasFileLines, AliasFileLen), r \in BOOLEAN,
         ok \in {0, 1}, t \in AliasTablesBefore }

InitAliases == InitStartup(AliasesInputs)

GetAliases ==
    /\ startup.fn = "get_aliases"
    /\ ~startup.done
    /\ startup' = [get_aliases(startup) EXCEPT !.done = TRUE]
    /\ StartupStep

NextAliases == GetAliases

SpecAliases == InitAliases /\ [][NextAliases]_vars

(***************************************************************************)
(* get_last_path and set_start_path                                        *)
(***************************************************************************)
DEF_CUR_WS == 0

\* `*p - '0'` for the characters of the model, by their ASCII codes
minus_zero(ch) ==
    IF IS_DIGIT(ch) THEN DigitVal(ch)
    ELSE CASE ch = "-" -> 0 - 3
           [] ch = "/" -> 0 - 1
           [] ch = ":" -> 10
           [] ch = "a" -> 49
           [] OTHER -> 0 - 48

\* The body of the loop of get_last_path for one line of the file
get_last_path_line(st, line) ==
    IF line = << >> \/ strchr_from(line, 0, "/") = -1 THEN st
    ELSE IF strchr_from(line, 0, ":") = -1 THEN st
    ELSE LET l == chomp(line)
             cur == IF At(l, 0) = "*" THEN 1 ELSE 0
             p == IF cur = 1 THEN Drop(l, 1) ELSE l
         IN IF cur = 1 /\ p = << >> THEN st
            ELSE
            LET ws_n == minus_zero(At(p, 0))
                s1 == IF cur = 1 /\ st.cur_ws = UNSET
                      THEN [st EXCEPT !.cur_ws = ws_n] ELSE st
            IN IF ws_n >= 0 /\ ws_n < MAX_WS
                  /\ s1.workspaces[ws_n + 1] = NULL
               THEN [s1 EXCEPT !.workspaces[ws_n + 1] = Some(Drop(p, 2))]
               ELSE s1

RECURSIVE get_last_path_loop(_, _)
get_last_path_loop(st, k) ==
    IF k > Len(st.file) THEN st
    ELSE get_last_path_loop(get_last_path_line(st, st.file[k]), k + 1)

get_last_path(st) ==
    IF ~st.readable THEN st ELSE get_last_path_loop(st, 1)

\* The part of set_start_path that follows the choice of the workspace,
\* for a cur_ws that is an index of workspaces
start_in_workspace(st) ==
    LET s1 == IF st.workspaces[st.cur_ws + 1] # NULL THEN st
              ELSE IF st.cwd # << >>
              THEN [st EXCEPT !.workspaces[st.cur_ws + 1] = Some(st.cwd)]
              ELSE IF st.user_home # NULL
              THEN [st EXCEPT !.workspaces[st.cur_ws + 1] = st.user_home]
              ELSE IF ~st.root_ok
              THEN [st EXCEPT !.exited = TRUE]
              ELSE [st EXCEPT !.workspaces[st.cur_ws + 1] = Some(<< "/" >>)]
    IN IF s1.exited THEN s1
       ELSE IF s1.workspaces[s1.cur_ws + 1][1] \in s1.dirs THEN s1
       ELSE IF s1.cwd = << >> THEN [s1 EXCEPT !.exited = TRUE]
       ELSE [s1 EXCEPT !.workspaces[s1.cur_ws + 1] = Some(s1.cwd)]

\* `foreign` is what the read of workspaces[cur_ws].path finds when cur_ws
\* is no index of the array: a pointer that is NULL or not.  The writes
\* that follow land outside the array too.
set_start_path(st, foreign) ==
    LET s1 == IF st.restore_last_path # 0 THEN get_last_path(st) ELSE st
        s2 == IF s1.cur_ws = UNSET THEN [s1 EXCEPT !.cur_ws = DEF_CUR_WS]
              ELSE s1
        s3 == IF s2.cur_ws > MAX_WS - 1
              THEN [s2 EXCEPT !.cur_ws = DEF_CUR_WS] ELSE s2
    IN IF s3.cur_ws < 0
       THEN [s3 EXCEPT !.out_of_bounds = TRUE, !.foreign = foreign]
       ELSE start_in_workspace(s3)

(***************************************************************************)
(* The model of set_start_path: the workspace option of the command line,  *)
(* a `.last` file of up to LastFileLen lines, and what the system answers  *)
(***************************************************************************)
LastFileLen == 2

LastFileLines ==
    { << "*", "1", ":", "/", "a", NL >>,
      << "2", ":", "/", "b", NL >>,
      << "*", "9", ":", "/", "a", NL >>,
      << "*", "a", ":", "/", "a", NL >>,
      << "*", "-", ":", "/", "a", NL >>,
      << "*", NL >>,
      << "1", ":", "/", "g", "o", "n", "e", NL >> }

\* -w absent, or -w N for N in 0..MAX_WS
WorkspaceOptions == {NULL} \cup {Some(<< ToString(n) >>) : n \in 0..MAX_WS}

\* getcwd(), the home directory and access("/")
SystemAnswers ==
    { [cwd |-> << "/", "h" >>, user_home |-> NULL, root_ok |-> TRUE],
      [cwd |-> << >>, user_home |-> Some(<< "/", "b" >>), root_ok |-> TRUE],
      [cwd |-> << >>, user_home |-> NULL, root_ok |-> TRUE],
      [cwd |-> << >>, user_home |-> NULL, root_ok |-> FALSE] }

StartPathInputs ==
    { [fn |-> "set_start_path", done |-> FALSE, file |-> f,
       readable |-> TRUE, restore_last_path |-> r,
       cur_ws |-> IF w = NULL THEN UNSET
                  ELSE workspace_option(w[1], UNSET),
       workspaces |-> [i \in 1..MAX_WS |-> NULL],
       cwd |-> sys.cwd, user_home |-> sys.user_home, root_ok |-> sys.root_ok,
       dirs |-> { << "/" >>, << "/", "a" >>, << "/", "b" >>, << "/", "h" >> },
       exited |-> FALSE, out_of_bounds |-> FALSE, foreign |-> FALSE] :
         f \in SeqsUpTo(LastFileLines, LastFileLen), r \in {0, 1},
         w \in WorkspaceOptions, sys \in SystemAnswers }

InitStartPath == InitStartup(StartPathInputs)

SetStartPath ==
    /\ startup.fn = "set_start_path"
    /\ ~startup.done
    /\ \E foreign \in BOOLEAN :
          startup' = [set_start_path(startup, foreign) EXCEPT !.done = TRUE]
    /\ StartupStep

NextStartPath == SetStartPath

SpecStartPath == InitStartPath /\ [][NextStartPath]_vars

(***************************************************************************)
(* Vocabulary of the properties                                            *)
(***************************************************************************)
StrategyCodes == {"a", "b", "c", "e", "f", "h", "j"}

\* rl_suggestions has just returned (the last step was not a cursor move)
Called == obs.c # NUL

\* The prompt operations of the last call, without the early returns
PromptOps(o) == SelectSeq(o.ops, LAMBDA x : x \in {"save", "restore"})

\* The text up to the first space, leading spaces skipped
RECURSIVE SkipSpaces(_)
SkipSpaces(l) == IF l # << >> /\ l[1] = " " THEN SkipSpaces(Tail(l)) ELSE l

FirstWordOf(l) ==
    LET t  == SkipSpaces(l)
        sp == strchr_from(t, 0, " ")
    IN IF sp = -1 THEN t ELSE Take(t, sp)

\* The index after the last character of the line that is not a space
EndOfLastWord(l) ==
    LET nb == {i \in 1..Len(l) : l[i] # " "}
    IN IF nb = {} THEN 0 ELSE CHOOSE i \in nb : \A j \in nb : j <= i

\* w names a command, a builtin, an alias or an executable path
KnownCommand(w) ==
    \/ \E k \in 1..Len(env.bin_commands) : env.bin_commands[k] = w
    \/ \E k \in 1..Len(env.builtins) : env.builtins[k] = w
    \/ \E k \in 1..Len(env.aliases) : env.aliases[k].name = w
    \/ w \in env.executables
    \/ is_internal_c(w)

\* w starts as an operator, a quote, a variable, a comment or an assignment
SpecialForm(w) ==
    \/ At(w, 0) \in {";", ":", "#", "$", "'", "\"", "<", ">", "!", "{", "[",
                     "(", "|", "&"}
    \/ strchr_from(w, 0, "=") # -1

FirstWordUnknown ==
    LET w == FirstWordOf(rl_line_buffer)
    IN w # << >> /\ ~KnownCommand(w) /\ ~SpecialForm(w)

(***************************************************************************)
(* C1: the order of the strategy                                           *)
(***************************************************************************)
\* C1: once the strategy loop is reached, the sources are tried in the
\* order of suggestion_strategy; a source that supplies the match is the
\* last one tried; and when none supplies it, every character of the
\* strategy has been tried (no character stops the remaining ones).
C1_StrategyInOrder ==
    obs.reached =>
        /\ obs.tried = Take(env.suggestion_strategy, Len(obs.tried))
        /\ obs.by \in StrategyCodes => obs.tried[Len(obs.tried)] = obs.by
        /\ obs.by \notin StrategyCodes => Len(obs.tried) = SUG_STRATS

(***************************************************************************)
(* C2: the prompt and the flag                                             *)
(***************************************************************************)
\* C2: the warning prompt is installed iff wrong_cmd is 1 and the normal
\* prompt iff wrong_cmd is 0, in every state between keystrokes.
C2_PromptFollowsFlag ==
    /\ wrong_cmd \in {0, 1}
    /\ rl_prompt = "warning" <=> wrong_cmd = 1
    /\ rl_prompt = "normal" <=> wrong_cmd = 0

\* recover_from_wrong_cmd has returned early and left both as they were
C2_Witness ==
    /\ Called
    /\ \E i \in 1..Len(obs.ops) : obs.ops[i] = "early"
    /\ wrong_cmd = 1
    /\ rl_prompt = "warning"

TypedUnknownWord ==
    /\ Called
    /\ obs.c \notin {" ", NL, BS}
    /\ env.warning_prompt = 1
    /\ rl_point = Len(rl_line_buffer)
    /\ strchr_from(rl_line_buffer, 0, " ") = -1
    /\ FirstWordUnknown
    /\ obs.by = "none"
    /\ At(rl_line_buffer, 0) # "/"

RECURSIVE Alternates(_, _)
Alternates(s, first) ==
    \/ s = << >>
    \/ /\ s[1] = first
       /\ Alternates(Tail(s), IF first = "save" THEN "restore" ELSE "save")

\* C4: over every call the prompt operations alternate, starting with a
\* save when no save is pending and with a restore when one is; a save is
\* pending exactly while wrong_cmd is 1.
C4_SavesAndRestoresAlternate ==
    [][ /\ Alternates(PromptOps(obs'),
                      IF saved_prompt = "none" THEN "save" ELSE "restore")
        /\ saved_prompt # "none" <=> wrong_cmd = 1
        /\ saved_prompt' # "none" <=> wrong_cmd' = 1
        /\ (wrong_cmd = 0 /\ wrong_cmd' = 1)
              => PromptOps(obs')[Len(PromptOps(obs'))] = "save"
        /\ (wrong_cmd = 1 /\ wrong_cmd' = 0)
              => PromptOps(obs')[Len(PromptOps(obs'))] = "restore" ]_vars

\* One call has restored the prompt and saved it again
C4_Witness ==
    /\ PromptOps(obs) = << "restore", "save" >>
    /\ wrong_cmd = 1
    /\ saved_prompt = "normal"

(***************************************************************************)
(* C5: no suggestion while the command is wrong                            *)
(***************************************************************************)
\* C5: when wrong_cmd is 1 before and after a call and the call neither
\* saved nor restored the prompt, nothing is stored by print_suggestion and
\* suggestion.printed is 0 on return.
C5_NothingWhileWrong ==
    [][ (obs'.c # NUL /\ wrong_cmd = 1 /\ wrong_cmd' = 1
         /\ PromptOps(obs') = << >>)
        => /\ suggestion'.printed = 0
           /\ (obs'.req # NULL => ~obs'.req[1].stored) ]_vars

(***************************************************************************)
(* C6: the cursor away from the end of the last word                       *)
(***************************************************************************)
\* The cursor is on a later word of the line, or on the only one
NotOnFirstWord ==
    LET cw == count_words(rl_line_buffer, cur_color)
    IN cw.words < 2 \/ rl_point > cw.full_word + 1

C7_NothingOnComments ==
    (Called /\ At(rl_line_buffer, 0) = "#")
    => /\ suggestion.printed = 0
       /\ suggestion_buf = NULL
       /\ obs.tried = << >>
       /\ obs.req = NULL
       /\ ~obs.reached

(***************************************************************************)
(* C8: entry list numbers                                                  *)
(***************************************************************************)
Digits == {"0", "1", "2", "3", "4", "5", "6", "7", "8", "9"}

\* The line is one word made of digits only, the first of them not 0
BareNumber(l) ==
    l # << >> /\ l[1] # "0" /\ \A i \in 1..Len(l) : l[i] \in Digits

\* The number a string of digits writes in base ten
RECURSIVE Decimal(_)
Decimal(l) ==
    IF l = << >> THEN 0
    ELSE 10 * Decimal(SubSeq(l, 1, Len(l) - 1))
         + (CHOOSE d \in 0..9 : ToString(d) = l[Len(l)])

\* Entry n is listed and the option for its kind is on
ElnAllowed(n) ==
    /\ n \in 1..Len(env.file_info)
    /\ \/ env.file_info[n].dir = 1 /\ env.autocd = 1
       \/ env.file_info[n].dir = 0 /\ env.auto_open = 1

ElnText(n) ==
    IF env.file_info[n].dir = 1 THEN env.file_info[n].name \o << "/" >>
    ELSE env.file_info[n].name

\* C8: a call on a line that is a bare number tries the ELN source first.
\* If the number is a listed entry whose kind is enabled (a directory with
\* autocd, another file with auto_open) the source supplies the match: it
\* asks print_suggestion for the entry's name, with a trailing '/' for a
\* directory, at offset 0 as an ELN suggestion, the offset on return is 0,
\* and the text is stored with the BAEJ flag set (always when wrong_cmd was
\* clear).  For any other number the ELN source supplies nothing.
C8_ElnOnlyWhenValid ==
    [][ (obs'.c \notin {NUL, " "} /\ BareNumber(rl_line_buffer'))
        => /\ obs'.tried # << >> /\ obs'.tried[1] = "e"
           /\ IF ElnAllowed(Decimal(rl_line_buffer'))
              THEN /\ obs'.by = "e"
                   /\ obs'.req # NULL
                   /\ obs'.req[1].str = ElnText(Decimal(rl_line_buffer'))
                   /\ obs'.req[1].offset = 0
                   /\ obs'.req[1].type = "ELN_SUG"
                   /\ suggestion'.offset = 0
                   /\ suggestion'.printed = 1
                   /\ wrong_cmd = 0 => obs'.req[1].stored
                   /\ obs'.req[1].stored
                        => /\ suggestion_buf'
                                = Some(ElnText(Decimal(rl_line_buffer')))
                           /\ flags_baej' = 1
              ELSE /\ obs'.by # "e"
                   /\ obs'.req = NULL \/ obs'.req[1].type # "ELN_SUG" ]_vars

\* The number of a directory has been typed with autocd on
C8_Witness ==
    /\ Called
    /\ rl_line_buffer = << "2" >>
    /\ env.autocd = 1
    /\ obs.by = "e"
    /\ obs.req # NULL /\ obs.req[1].stored
    /\ suggestion_buf = Some(<< "y", "/" >>)
    /\ flags_baej = 1
    /\ suggestion.offset = 0

(***************************************************************************)
(* C9: the history source                                                  *)
(***************************************************************************)
\* Letters compared as case_sens_path_comp says
Fold(t) == IF env.case_sens_path_comp = 1 THEN t ELSE Upper(t)

\* The first Len(l) characters of t are those of l
StartsWith(t, l) == Len(t) >= Len(l) /\ Fold(SubSeq(t, 1, Len(l))) = Fold(l)

\* The entries of the history that have the line l as a proper prefix
Extensions(l) ==
    {k \in 1..Len(env.history) :
        Len(env.history[k]) > Len(l) /\ SubSeq(env.history[k], 1, Len(l)) = l}

\* The most recent entry that starts with l (0 for none)
MostRecentMatch(l) ==
    LET m == {k \in 1..Len(env.history) : StartsWith(env.history[k], l)}
    IN IF m = {} THEN 0 ELSE CHOOSE k \in m : \A j \in m : j <= k

\* C9 as stated: when the history source is asked about a line that some
\* entry extends, in a call that found wrong_cmd clear, the text stored is
\* such an entry and the offset is 0, whatever else the history holds.
C9_SuggestsWheneverPrefix ==
    (/\ Called
     /\ \E i \in 1..Len(obs.tried) : obs.tried[i] = "h"
     /\ rl_line_buffer # << >>
     /\ obs.c # NL
     /\ Extensions(rl_line_buffer) # {}
     /\ wrong_cmd = 0
     /\ obs.ops = << >>)
    => /\ suggestion_buf # NULL
       /\ \E k \in Extensions(rl_line_buffer) :
              suggestion_buf = Some(env.history[k])
       /\ suggestion.offset = 0

\* C9: when the history source is asked about a line, the most recent entry
\* that starts with the line (letters compared as case_sens_path_comp says)
\* decides.  If it is longer than the line, the source asks print_suggestion
\* for its full text, the offset on return is 0 and the text is stored
\* (always when wrong_cmd was clear); if it is the line itself the source
\* reports a full match and nothing is stored, even when an older entry
\* extends the line; with no such entry the source supplies nothing.
C9_MostRecentMatchDecides ==
    [][ (/\ obs'.c # NUL
         /\ \E i \in 1..Len(obs'.tried) : obs'.tried[i] = "h"
         /\ rl_line_buffer' # << >>)
        => IF MostRecentMatch(rl_line_buffer') = 0 THEN obs'.by # "h"
           ELSE IF Len(env.history[MostRecentMatch(rl_line_buffer')])
                      > Len(rl_line_buffer')
           THEN /\ obs'.by = "h"
                /\ obs'.req # NULL
                /\ obs'.req[1].str
                      = env.history[MostRecentMatch(rl_line_buffer')]
                /\ obs'.req[1].type = "HIST_SUG"
                /\ suggestion'.offset = 0
                /\ suggestion'.printed = 1
                /\ wrong_cmd = 0 => obs'.req[1].stored
                /\ obs'.req[1].stored
                     => suggestion_buf'
                          = Some(env.history[MostRecentMatch(rl_line_buffer')])
           ELSE /\ obs'.by = "h"
                /\ obs'.req = NULL
                /\ suggestion_buf' = NULL ]_vars

\* Two entries start with the line and the more recent one is suggested
C9_Witness ==
    /\ Called
    /\ obs.by = "h"
    /\ rl_line_buffer = << "g" >>
    /\ env.history = << << "g", "i" >>, << "g", "i", " ", "g" >> >>
    /\ suggestion_buf = Some(<< "g", "i", " ", "g" >>)
    /\ suggestion.offset = 0

(***************************************************************************)
(* C10: the alias source                                                   *)
(***************************************************************************)
\* The line is one word, typed without a space
OneWord(l) == l # << >> /\ \A i \in 1..Len(l) : l[i] # " "

\* The aliases with an expansion whose name is w
AliasesNamed(w) ==
    {k \in 1..Len(env.aliases) :
        env.aliases[k].name = w /\ env.aliases[k].cmd # << >>}

\* The aliases with an expansion whose name starts with w
AliasesStarting(w) ==
    {k \in 1..Len(env.aliases) :
        StartsWith(env.aliases[k].name, w) /\ env.aliases[k].cmd # << >>}

\* C10 as stated: when the alias source is asked, in print mode, about a
\* word, it supplies the match iff the word is the name of an alias with a
\* non-empty expansion.
C10_SuggestsIffEqual ==
    (/\ Called
     /\ \E i \in 1..Len(obs.tried) : obs.tried[i] = "a"
     /\ OneWord(rl_line_buffer)
     /\ wrong_cmd = 0
     /\ obs.ops = << >>)
    => (obs.by = "a" <=> AliasesNamed(rl_line_buffer) # {})

\* C10: when the alias source is asked, in print mode, about a word, it
\* supplies the match iff the word is the start of the name of an alias
\* with a non-empty expansion (letters compared as case_sens_path_comp
\* says); it then asks print_suggestion for the expansion of the last such
\* alias of the list at offset 0 as an alias suggestion, the offset on
\* return is 0, and the text is stored with the BAEJ flag set (always when
\* wrong_cmd was clear).
C10_SuggestsOnPrefix ==
    [][ (/\ obs'.c # NUL
         /\ \E i \in 1..Len(obs'.tried) : obs'.tried[i] = "a"
         /\ OneWord(rl_line_buffer'))
        => IF AliasesStarting(rl_line_buffer') = {} THEN obs'.by # "a"
           ELSE /\ obs'.by = "a"
                /\ obs'.req # NULL
                /\ \E k \in AliasesStarting(rl_line_buffer') :
                      /\ \A j \in AliasesStarting(rl_line_buffer') : j <= k
                      /\ obs'.req[1].str = env.aliases[k].cmd
                /\ obs'.req[1].offset = 0
                /\ obs'.req[1].type = "ALIAS_SUG"
                /\ suggestion'.offset = 0
                /\ wrong_cmd = 0 => obs'.req[1].stored
                /\ obs'.req[1].stored
                     => /\ suggestion_buf' = Some(obs'.req[1].str)
                        /\ flags_baej' = 1 ]_vars

\* The first letter of an alias name has been typed and its expansion is
\* suggested
C10_Witness ==
    /\ Called
    /\ obs.by = "a"
    /\ rl_line_buffer = << "a" >>
    /\ AliasesNamed(rl_line_buffer) = {}
    /\ suggestion_buf = Some(<< "b", " ", "a" >>)
    /\ flags_baej = 1
    /\ suggestion.offset = 0

(***************************************************************************)
(* C11: the file-in-CWD source                                             *)
(***************************************************************************)
\* The text of the line after its last space
LastWordOf(l) ==
    LET sp == {i \in 1..Len(l) : l[i] = " "}
    IN IF sp = {} THEN l ELSE Drop(l, CHOOSE i \in sp : \A j \in sp : j <= i)

\* The line holds no space: its only word is the first word
NoSpace(l) == \A i \in 1..Len(l) : l[i] # " "

\* What is suggested for entry i: its name, with '/' for a directory
FileText(i) ==
    IF env.file_info[i].dir = 1 THEN env.file_info[i].name \o << "/" >>
    ELSE env.file_info[i].name

\* Entry i is not passed over: on a line without a space the option for its
\* kind is on, and on a line of several words that starts with `cd ` it is
\* a directory
FileEligible(l, nw, i) ==
    /\ ~(NoSpace(l) /\ \/ env.file_info[i].dir = 1 /\ env.autocd = 0
                       \/ env.file_info[i].dir = 0 /\ env.auto_open = 0)
    /\ ~(nw > 1 /\ Take(l, 3) = << "c", "d", " " >>
         /\ env.file_info[i].dir = 0)

\* The first entry of S in listing order (0 for none)
FirstListed(S) == IF S = {} THEN 0 ELSE CHOOSE i \in S : \A j \in S : i <= j

\* The first of the entries S whose name starts with w
FirstWithPrefix(S, w) ==
    FirstListed({i \in S : StartsWith(env.file_info[i].name, w)})

\* The first of the entries S that match w fuzzily
FirstFuzzy(S, w) ==
    FirstListed({i \in S : fuzzy_match(w, env.file_info[i].name,
                                       env.case_sens_path_comp)})

\* The file source has been asked about the word the cursor ends
FileSourceAsked(o, l, p) ==
    /\ o.c \notin {NUL, " "}
    /\ \E i \in 1..Len(o.tried) : o.tried[i] = "f"
    /\ p = Len(l)
    /\ LastWordOf(l) # << >>

\* The file source has supplied entry i for the word of length n
FileSuggested(o, buf, i, n, wrong) ==
    /\ o.by = "f"
    /\ o.req # NULL
    /\ o.req[1].str = FileText(i)
    /\ o.req[1].offset = n
    /\ wrong = 0 => o.req[1].stored
    /\ o.req[1].stored => buf = Some(FileText(i))

\* The entry e decides among the entries S: it is suggested when its name is
\* longer than the word; a name equal to the word is a full match and
\* nothing is stored; with no such entry the first fuzzy match fz is
\* suggested when fuzzy matching is on; otherwise the source has no match
FileOutcome(o, buf, w, e, fz, wrong) ==
    IF e # 0
    THEN IF Len(env.file_info[e].name) > Len(w)
         THEN FileSuggested(o, buf, e, Len(w), wrong)
         ELSE o.by = "f" /\ o.req = NULL /\ buf = NULL
    ELSE IF env.fuzzy_match = 1 /\ fz # 0
    THEN FileSuggested(o, buf, fz, Len(w), wrong)
    ELSE o.by # "f"

AllListed == 1..Len(env.file_info)

\* C11 as stated: the first entry of the listing whose name starts with the
\* word is suggested from the typed length on, with '/' for a directory;
\* failing that, with fuzzy matching on, the first entry that matches
\* fuzzily; otherwise the source has no match.
C11_FirstListedEntryDecides ==
    [][ FileSourceAsked(obs', rl_line_buffer', rl_point')
        => FileOutcome(obs', suggestion_buf', LastWordOf(rl_line_buffer'),
               FirstWithPrefix(AllListed, LastWordOf(rl_line_buffer')),
               FirstFuzzy(AllListed, LastWordOf(rl_line_buffer')),
               wrong_cmd) ]_vars

\* The entries of the listing that are not passed over for the line l
EligibleFor(l, nw) == {i \in AllListed : FileEligible(l, nw, i)}

\* C11: the same, among the entries that are not passed over: on a line
\* without a space the entries whose kind has its option off (autocd for
\* directories, auto_open for other files) are skipped, and on a line of
\* several words that starts with `cd ` the entries that are not
\* directories are skipped.
C11_FirstEligibleEntryDecides ==
    [][ FileSourceAsked(obs', rl_line_buffer', rl_point')
        => FileOutcome(obs', suggestion_buf', LastWordOf(rl_line_buffer'),
               FirstWithPrefix(EligibleFor(rl_line_buffer', nwords'),
                               LastWordOf(rl_line_buffer')),
               FirstFuzzy(EligibleFor(rl_line_buffer', nwords'),
                          LastWordOf(rl_line_buffer')),
               wrong_cmd) ]_vars

\* The first word `a` has been typed with auto_open off: the directory ab
\* is suggested from the second character on, with its '/'
C11_Witness ==
    /\ Called
    /\ env.auto_open = 0
    /\ rl_line_buffer = << "a" >>
    /\ rl_point = 1
    /\ obs.by = "f"
    /\ obs.req # NULL /\ obs.req[1].offset = 1
    /\ suggestion_buf = Some(<< "a", "b", "/" >>)

(***************************************************************************)
(* C12: the jump source                                                    *)
(***************************************************************************)
\* The text of a path after its last '/'
LastComponent(path) ==
    LET sl == {i \in 1..Len(path) : path[i] = "/"}
    IN IF sl = {} THEN path
       ELSE Drop(path, CHOOSE i \in sl : \A j \in sl : j <= i)

\* The jump source has been asked, in print mode, about the only word of
\* the line, which the cursor ends
JumpSourceAsked(o, l, p) ==
    /\ o.c \notin {NUL, " "}
    /\ \E i \in 1..Len(o.tried) : o.tried[i] = "j"
    /\ env.autocd = 1
    /\ OneWord(l)
    /\ p = Len(l)

\* C12 as stated: asked about a word, the jump source supplies the match
\* iff the word is the start of the last component of an entry's path, and
\* the suggestion is then a BAEJ one at offset 0.
C12_SuggestsOnLastComponent ==
    (/\ JumpSourceAsked(obs, rl_line_buffer, rl_point)
     /\ wrong_cmd = 0
     /\ obs.ops = << >>)
    => /\ obs.by = "j"
            <=> \E k \in 1..Len(env.jump_db) :
                   StartsWith(LastComponent(env.jump_db[k].path),
                              rl_line_buffer)
       /\ obs.by = "j" => (suggestion.offset = 0 /\ flags_baej = 1)

\* The last entry of the database whose path starts with w (0 for none)
LastJumpMatch(w) ==
    LET m == {k \in 1..Len(env.jump_db) : StartsWith(env.jump_db[k].path, w)}
    IN IF m = {} THEN 0 ELSE CHOOSE k \in m : \A j \in m : j <= k

\* A path as it is suggested: with a '/' at its end
JumpText(k) ==
    IF env.jump_db[k].path[Len(env.jump_db[k].path)] = "/"
    THEN env.jump_db[k].path ELSE env.jump_db[k].path \o << "/" >>

\* C12: asked in print mode about a word, the jump source is decided by the
\* last entry of the database whose full path starts with the word (letters
\* compared as case_sens_path_comp says).  If the path is longer than the
\* word it asks print_suggestion for the path, ending with '/', from the
\* typed length on as a file suggestion (inline: the offset on return is
\* that of the word and the BAEJ flag is clear); if the path is the word it
\* reports a full match and nothing is stored; with no such entry it
\* supplies nothing.
C12_SuggestsOnPathPrefix ==
    [][ JumpSourceAsked(obs', rl_line_buffer', rl_point')
        => IF LastJumpMatch(rl_line_buffer') = 0 THEN obs'.by # "j"
           ELSE IF Len(env.jump_db[LastJumpMatch(rl_line_buffer')].path)
                      > Len(rl_line_buffer')
           THEN /\ obs'.by = "j"
                /\ obs'.req # NULL
                /\ obs'.req[1].str = JumpText(LastJumpMatch(rl_line_buffer'))
                /\ obs'.req[1].offset = Len(rl_line_buffer')
                /\ obs'.req[1].type = "FILE_SUG"
                /\ suggestion'.printed = 1
                /\ wrong_cmd = 0 => obs'.req[1].stored
                /\ obs'.req[1].stored
                     => /\ suggestion_buf' = Some(obs'.req[1].str)
                        /\ flags_baej' = 0
           ELSE /\ obs'.by = "j"
                /\ obs'.req = NULL
                /\ suggestion_buf' = NULL ]_vars

\* The start of a visited path has been typed and the path is suggested
\* inline
C12_Witness ==
    /\ JumpSourceAsked(obs, rl_line_buffer, rl_point)
    /\ rl_line_buffer = << "/", "a", "/" >>
    /\ obs.by = "j"
    /\ obs.req # NULL /\ obs.req[1].offset = 3
    /\ suggestion_buf = Some(<< "/", "a", "/", "b", "/" >>)
    /\ flags_baej = 0

(***************************************************************************)
(* C13: the backdir suggestion                                             *)
(***************************************************************************)
\* w occurs in t as a substring
Contains(t, w) ==
    \E k \in 1..(Len(t) - Len(w) + 1) : SubSeq(t, k, k + Len(w) - 1) = w

\* The proper ancestors of the directory d, the root excepted
Ancestors(d) == {Take(d, i - 1) : i \in {k \in 2..Len(d) : d[k] = "/"}}

\* The parent of the directory d
ParentOf(d) ==
    LET sl == {k \in 1..Len(d) : d[k] = "/"}
    IN IF sl = {} THEN d
       ELSE Take(d, (CHOOSE k \in sl : \A j \in sl : j <= k) - 1)

\* The ancestors of the current directory whose path contains w
AncestorsWith(w) == {a \in Ancestors(env.cwd) : Contains(a, w)}

\* The line is `bd WORD`, the cursor ends it, and the call did not end
\* with the check of the suggestion already printed
BdAsked(o, l, p) ==
    /\ o.c # NUL
    /\ Take(l, 3) = << "b", "d", " " >>
    /\ Len(l) > 3
    /\ p = Len(l)
    /\ o.by # "kept"

\* C13 as stated: the backdir suggestion for `bd WORD` is the deepest
\* ancestor of the current directory whose path contains WORD, and there
\* is none when no ancestor contains it.
C13_NearestAncestor ==
    (/\ BdAsked(obs, rl_line_buffer, rl_point)
     /\ wrong_cmd = 0
     /\ obs.ops = << >>
     /\ \A i \in 4..Len(rl_line_buffer) : rl_line_buffer[i] # "/")
    => IF AncestorsWith(Drop(rl_line_buffer, 3)) = {} THEN obs.by # "bd"
       ELSE /\ obs.by = "bd"
            /\ suggestion_buf # NULL
            /\ suggestion_buf[1] \in AncestorsWith(Drop(rl_line_buffer, 3))
            /\ \A a \in AncestorsWith(Drop(rl_line_buffer, 3)) :
                  Len(a) <= Len(suggestion_buf[1])

\* The parent path t cut at the first '/' at or after the first occurrence
\* of w in it
CutAfterFirst(t, w) ==
    LET p  == CHOOSE k \in 1..Len(t) :
                 /\ SubSeq(t, k, k + Len(w) - 1) = w
                 /\ \A j \in 1..(k - 1) : SubSeq(t, j, j + Len(w) - 1) # w
        sl == {k \in p..Len(t) : t[k] = "/"}
    IN IF sl = {} THEN t
       ELSE Take(t, (CHOOSE k \in sl : \A j \in sl : k <= j) - 1)

\* C13: for `bd WORD` the first occurrence of WORD in the path of the
\* parent of the current directory decides: the path is cut at the next
\* '/' and suggested at offset 0 as a backdir (BAEJ) suggestion.  For a
\* WORD without '/' this is the SHALLOWEST ancestor whose path contains
\* WORD, the one farthest from the current directory.  When WORD is a lone
\* '/' or the parent's path does not contain it there is no backdir
\* suggestion.
C13_FirstOccurrenceDecides ==
    [][ BdAsked(obs', rl_line_buffer', rl_point')
        => IF Drop(rl_line_buffer', 3) = << "/" >>
              \/ ~Contains(ParentOf(env.cwd), Drop(rl_line_buffer', 3))
           THEN obs'.by # "bd"
           ELSE /\ obs'.by = "bd"
                /\ obs'.req # NULL
                /\ obs'.req[1].str = CutAfterFirst(ParentOf(env.cwd),
                                                   Drop(rl_line_buffer', 3))
                /\ obs'.req[1].offset = 0
                /\ obs'.req[1].type = "BACKDIR_SUG"
                /\ (\A i \in 4..Len(rl_line_buffer') :
                        rl_line_buffer'[i] # "/")
                     => /\ obs'.req[1].str
                              \in AncestorsWith(Drop(rl_line_buffer', 3))
                        /\ \A a \in AncestorsWith(Drop(rl_line_buffer', 3)) :
                              Len(obs'.req[1].str) <= Len(a)
                /\ (wrong_cmd = 0 /\ obs'.req[1].str # << >>)
                     => obs'.req[1].stored
                /\ obs'.req[1].stored
                     => /\ suggestion_buf' = Some(obs'.req[1].str)
                        /\ flags_baej' = 1 ]_vars

\* `bd d` has been typed below /d/b/d: the ancestor /d is suggested, not
\* the nearer /d/b/d
C13_Witness ==
    /\ BdAsked(obs, rl_line_buffer, rl_point)
    /\ rl_line_buffer = << "b", "d", " ", "d" >>
    /\ obs.by = "bd"
    /\ suggestion_buf = Some(<< "/", "d" >>)
    /\ << "/", "d", "/", "b", "/", "d" >> \in AncestorsWith(<< "d" >>)
    /\ flags_baej = 1

(***************************************************************************)
(* C14: after `cd ` only directories                                       *)
(***************************************************************************)
\* The file source has supplied the suggestion, and it was printed, on a
\* line that starts with `cd `
CdFileSuggested(o, l) ==
    /\ o.c # NUL
    /\ Take(l, 3) = << "c", "d", " " >>
    /\ o.by = "f"
    /\ o.req # NULL
    /\ o.req[1].stored

\* The text is that of a listed directory
IsDirectoryText(s) ==
    \E i \in AllListed : env.file_info[i].dir = 1 /\ s = FileText(i)

\* C14 as stated: on every line that starts with `cd `, what the file
\* source suggests is a directory.
C14_CdOnlyDirectories ==
    CdFileSuggested(obs, rl_line_buffer) => IsDirectoryText(obs.req[1].str)

\* C14: on every line that starts with `cd ` and whose last command (the
\* words after the last separator) counts more than one word, what the
\* file source suggests, by prefix or fuzzily, is a directory.
C14_CdOnlyDirectoriesInItsCommand ==
    (CdFileSuggested(obs, rl_line_buffer) /\ nwords > 1)
    => IsDirectoryText(obs.req[1].str)

\* After `cd d` the directory dd is suggested although the file dc is
\* listed before it
C14_Witness ==
    /\ CdFileSuggested(obs, rl_line_buffer)
    /\ nwords > 1
    /\ rl_line_buffer = << "c", "d", " ", "d" >>
    /\ env.file_info[1].dir = 0
    /\ StartsWith(env.file_info[1].name, << "d" >>)
    /\ suggestion_buf = Some(<< "d", "d", "/" >>)

(***************************************************************************)
(* C15: --help after an internal command                                   *)
(***************************************************************************)
HelpText == << "-", "-", "h", "e", "l", "p" >>

\* The line is an internal command, one space, and a non-empty start of
\* `--help`
CommandThenHelp(l) ==
    \E n \in 1..Len(l) :
       /\ l[n] = " "
       /\ Take(l, n - 1) \in env.internal_cmds
       /\ Len(l) > n
       /\ Drop(l, n) = Take(HelpText, Len(l) - n)

\* C15: after a key typed at the end of a line made of an internal command
\* and a non-empty start of `--help`, with the normal prompt, the
\* suggestion is the text `--help`.
C15_HelpAlwaysSuggested ==
    (/\ Called
     /\ obs.c \notin {NL, BS}
     /\ rl_point = Len(rl_line_buffer)
     /\ CommandThenHelp(rl_line_buffer)
     /\ wrong_cmd = 0
     /\ obs.ops = << >>)
    => /\ suggestion.printed = 1
       /\ suggestion_buf = Some(HelpText)


(***************************************************************************)
(* C16                                                                     *)
(***************************************************************************)
\* A step that accepts the text a source of `among` suggested and runs the
\* source again
RerunOf(among) ==
    /\ AcceptAndRerun
    /\ obs.by \in among

\* The second run suggests nothing, or the accepted text again
SameOrNothing ==
    \/ suggestion_buf' = NULL
    \/ suggestion_buf' = suggestion_buf

\* C16: for every source (alias, bookmark, ELN, file name, history, jump)
\* and every word, when the source run on the word suggests a text, the
\* same source run on that text suggests nothing or the same text again.
C16_NoOscillation ==
    [][RerunOf(OscSources) => SameOrNothing]_vars

\* C16, amended: the file-name and the history source, run on the text they
\* suggested, suggest nothing or the same text again.
C16_NoOscillationFilesHistory ==
    [][RerunOf({"f", "h"}) => SameOrNothing]_vars

\* The history source, which suggested `ab` for a shorter word while the
\* older entry `ab1` was in the history, has been run on `ab` and suggests
\* nothing
C16_Witness ==
    /\ obs.tried = << "h" >>
    /\ rl_line_buffer = << "a", "b" >>
    /\ env.history = << << "a", "b", "1" >>, << "a", "1" >>, << "a", "b" >> >>
    /\ suggestion_buf = NULL


(***************************************************************************)
(* C17                                                                     *)
(***************************************************************************)
\* C17: a second call of rl_suggestions with the same line, cursor and key
\* leaves the word count, the boundaries of the first word and wrong_cmd as
\* the first call left them.
C17_ClassificationIdempotent ==
    [][CallAgain =>
         /\ nwords' = nwords
         /\ obs'.start_word = obs.start_word
         /\ obs'.full_word = obs.full_word
         /\ wrong_cmd' = wrong_cmd]_vars

\* The second call on `x;x `, whose last command `x` is not a command: the
\* count is one word, the first word starts after the separator, and the
\* warning prompt stays on
C17_Witness ==
    /\ obs.c = " "
    /\ obs.calls = 2
    /\ rl_line_buffer = << "x", ";", "x", " " >>
    /\ nwords = 1
    /\ obs.start_word = 2
    /\ obs.full_word = 3
    /\ wrong_cmd = 1


(***************************************************************************)
(* C18                                                                     *)
(***************************************************************************)
\* The line and the cursor rl_suggestions is entered with in the step that
\* ends with the call for key c: the editor has inserted c at the cursor,
\* removed the character before it, or (new line) left the line alone
EntryLine(c) ==
    IF c = NL THEN rl_line_buffer
    ELSE IF c = BS
    THEN Take(rl_line_buffer, rl_point - 1) \o Drop(rl_line_buffer, rl_point)
    ELSE Take(rl_line_buffer, rl_point) \o << c >> \o Drop(rl_line_buffer, rl_point)

EntryPoint(c) ==
    IF c = NL THEN rl_point
    ELSE IF c = BS THEN rl_point - 1
    ELSE rl_point + 1

\* C18: on return from rl_suggestions the contents of rl_line_buffer, rl_point
\* and rl_end (the length of the buffer) are what they were on entry, on
\* every path: the copy of the first word, check_help, turn_it_wrong.
C18_BufferUndisturbed ==
    [][obs'.c # NUL =>
         /\ rl_line_buffer' = EntryLine(obs'.c)
         /\ Len(rl_line_buffer') = Len(EntryLine(obs'.c))
         /\ rl_point' = EntryPoint(obs'.c)]_vars

\* `-` has been typed at the end of `q `: the first word was copied,
\* check_help cut the line at the space and suggested --help, and the line
\* and the cursor are those of the editor
C18_Witness ==
    /\ obs.c = "-"
    /\ obs.by = "help"
    /\ rl_line_buffer = << "q", " ", "-" >>
    /\ rl_point = 3
    /\ suggestion_buf = Some(HelpText)



(***************************************************************************)
(* C19                                                                     *)
(***************************************************************************)
\* count_words has been applied to the line
Counted == obs.by = "count_words"

\* The indices (from 0) at which a separator ends: a `|` or a `;` not
\* preceded by a backslash, or the second `&` of a `&&` not preceded by
\* one
SeparatorEnds(b) ==
    {w \in 0..(Len(b) - 1) :
        \/ b[w + 1] \in {"|", ";"} /\ At(b, w - 1) # "\\"
        \/ b[w + 1] = "&" /\ At(b, w - 1) = "&" /\ At(b, w - 2) # "\\"}

\* Where the last command of the line starts
LastCommandStart(b) ==
    IF SeparatorEnds(b) = {} THEN 0 ELSE FirstDown(SeparatorEnds(b)) + 1

\* The indices at which a word of the last command starts: a character
\* that is not a space, at the start of the command or after a space that
\* no backslash escapes
WordStarts(b) ==
    {w \in LastCommandStart(b)..(Len(b) - 1) :
        /\ b[w + 1] # " "
        /\ \/ w = LastCommandStart(b)
           \/ At(b, w - 1) = " " /\ (w - 1 = LastCommandStart(b)
                                     \/ At(b, w - 2) # "\\")}

NoQuoteIn(b) == \A i \in 1..Len(b) : b[i] \notin {"'", "\""}

\* C19: count_words returns the number of words of the last command of the
\* line, the command after the last `|`, `;` or `&&` that no backslash
\* escapes, and the first word it reports is the token right after that
\* separator.  (Stated for the lines without quotes, where every separator
\* is outside quotes.)
C19_CountsLastCommand ==
    Counted /\ NoQuoteIn(rl_line_buffer) =>
        /\ nwords = Cardinality(WordStarts(rl_line_buffer))
        /\ WordStarts(rl_line_buffer) # {} =>
              obs.start_word = FirstUp(WordStarts(rl_line_buffer))


(***************************************************************************)
(* C20                                                                     *)
(***************************************************************************)
\* The quote that is open after the first i characters of b, and where it
\* was opened: a quote is closed by the character that opened it
RECURSIVE QuoteScan(_, _, _)
QuoteScan(b, i, st) ==
    IF i >= Len(b) THEN st
    ELSE QuoteScan(b, i + 1,
             IF st.q = NUL
             THEN (IF b[i + 1] \in {"'", "\""}
                   THEN [q |-> b[i + 1], at |-> i] ELSE st)
             ELSE (IF b[i + 1] = st.q THEN [q |-> NUL, at |-> 0] ELSE st))

OpenQuote(b) == QuoteScan(b, 0, [q |-> NUL, at |-> 0])

\* Neither a separator character nor a backslash
PlainLine(b) == \A i \in 1..Len(b) : b[i] \notin {"|", ";", "&", "\\"}

\* C20: on a line with a quote that is opened and not closed, the text from
\* the quote to the end of the buffer is one word: the count is the number
\* of words that start at or before the quote.  (Stated for the lines
\* without separators and backslashes.)
C20_OpenQuoteIsOneWord ==
    Counted /\ PlainLine(rl_line_buffer) /\ OpenQuote(rl_line_buffer).q # NUL =>
        nwords = Cardinality({w \in WordStarts(rl_line_buffer) :
                                 w <= OpenQuote(rl_line_buffer).at})

\* C20, amended: on a line with a quote that is opened and not closed, a
\* space starts a new word inside the quote as it does outside: the count
\* is the number of all the words of the line, those that start after the
\* quote included.  (For the lines without separators and backslashes.)
C20_OpenQuoteSplitsAtSpaces ==
    Counted /\ PlainLine(rl_line_buffer) /\ OpenQuote(rl_line_buffer).q # NUL =>
        nwords = Cardinality(WordStarts(rl_line_buffer))

\* The line `"x x`: two words are counted after the quote was opened
C20_Witness ==
    /\ Counted
    /\ rl_line_buffer = << "\"", "x", " ", "x" >>
    /\ OpenQuote(rl_line_buffer).q = "\""
    /\ nwords = 2

(***************************************************************************)
(* C21                                                                     *)
(***************************************************************************)
\* load_jumpdb has run on a jump.cfm it could read, with the directory
\* jumper on
JumpDbLoaded ==
    /\ startup.fn = "load_jumpdb"
    /\ startup.done
    /\ startup.readable
    /\ startup.no_dirjump = 0

\* The fields of a line between its colons: the text before the first
\* colon, between the first and the second, between the second and the
\* third, and all that follows the third
ColonsOf(line) == {i \in 1..Len(line) : line[i] = ":"}

NthColon(line, n) ==
    CHOOSE i \in ColonsOf(line) :
        Cardinality({j \in ColonsOf(line) : j < i}) = n - 1

JumpFields(line) ==
    << SubSeq(line, 1, NthColon(line, 1) - 1),
       SubSeq(line, NthColon(line, 1) + 1, NthColon(line, 2) - 1),
       SubSeq(line, NthColon(line, 2) + 1, NthColon(line, 3) - 1),
       SubSeq(line, NthColon(line, 3) + 1, Len(line)) >>

AllDigits(s) == s # << >> /\ \A i \in 1..Len(s) : s[i] \in Digits

\* A line of the form visits:first_visit:last_visit:path
IsJumpRecordLine(line) ==
    /\ Cardinality(ColonsOf(line)) >= 3
    /\ AllDigits(JumpFields(line)[1])
    /\ AllDigits(JumpFields(line)[2])
    /\ AllDigits(JumpFields(line)[3])
    /\ JumpFields(line)[4] # << >>

\* The record such a line stands for
JumpRecordOfLine(line) ==
    [visits |-> Decimal(JumpFields(line)[1]),
     first_visit |-> Decimal(JumpFields(line)[2]),
     last_visit |-> Decimal(JumpFields(line)[3]),
     path |-> JumpFields(line)[4]]

WithoutNewline(line) == SelectSeq(line, LAMBDA ch : ch # NL)

\* The lines of the file that are records of directories that exist, in
\* file order
RECURSIVE LiveRecords(_, _)
LiveRecords(file, exists) ==
    IF file = << >> THEN << >>
    ELSE LET l == WithoutNewline(Head(file))
         IN (IF IsJumpRecordLine(l) /\ JumpFields(l)[4] \in exists
             THEN << JumpRecordOfLine(l) >> ELSE << >>)
            \o LiveRecords(Tail(file), exists)

\* What the database records of a directory
Stored(db) ==
    [k \in 1..Len(db) |->
        [visits |-> db[k].visits, first_visit |-> db[k].first_visit,
         last_visit |-> db[k].last_visit, path |-> db[k].path]]

RankLines(file) == {k \in 1..Len(file) : At(file[k], 0) = "@"}

\* The number the last rank header of the file writes
HeaderRank(file) ==
    LET k == CHOOSE n \in RankLines(file) : \A m \in RankLines(file) : m <= n
    IN Decimal(Tail(WithoutNewline(file[k])))

\* Some line of the file starts with a digit
HasDigitLine(file) == \E k \in 1..Len(file) : Head(file[k]) \in Digits

\* The database holds, in file order, one record for each line
\* visits:first_visit:last_visit:path whose path exists, with those numbers
\* and that path, and nothing else: comments, the rank header and records of
\* missing directories add none; jump_n is the number of records and, when
\* records were allocated, it is below the number of slots
DatabaseMirrorsFile ==
    /\ Stored(startup.jump_db) = LiveRecords(startup.file, startup.exists)
    /\ startup.jump_n = Len(startup.jump_db)
    /\ startup.jump_db # << >> => startup.jump_n < startup.slots

\* C21, as stated: after load_jumpdb the database mirrors the file and a
\* line starting with `@` has set the total rank.
C21_RankHeaderAlwaysRead ==
    JumpDbLoaded =>
        /\ DatabaseMirrorsFile
        /\ RankLines(startup.file) # {}
              => startup.jump_total_rank = HeaderRank(startup.file)

\* C21, amended: after load_jumpdb the database mirrors the file, and a
\* line starting with `@` has set the total rank when some line of the file
\* starts with a digit; in a file with no such line nothing is read.
C21_DatabaseMirrorsFile ==
    JumpDbLoaded =>
        /\ DatabaseMirrorsFile
        /\ RankLines(startup.file) # {} /\ HasDigitLine(startup.file)
              => startup.jump_total_rank = HeaderRank(startup.file)
        /\ ~HasDigitLine(startup.file) => startup.jump_total_rank = 0

\* Loaded from a file with a record of a missing directory, the rank
\* header and a record whose path holds a colon: one record is kept
C21_Witness ==
    /\ JumpDbLoaded
    /\ startup.file =
          << << "2", ":", "1", ":", "1", ":", "/", "b", NL >>,
             << "@", "1", "7", NL >>,
             << "3", ":", "1", ":", "2", ":", "/", "a", ":", "b", NL >> >>
    /\ startup.jump_n = 1
    /\ startup.jump_db[1].path = << "/", "a", ":", "b" >>
    /\ startup.jump_total_rank = 17

(***************************************************************************)
(* C22                                                                     *)
(***************************************************************************)
\* check_options has returned
OptionsChecked == startup.fn = "check_options" /\ startup.done

\* C22: after check_options, whatever the configuration file and the
\* command line gave to autojump and autocd, autojump = 1 implies
\* autocd = 1.
C22_AutojumpImpliesAutocd ==
    OptionsChecked => (startup.opts.autojump = 1 => startup.opts.autocd = 1)

(***************************************************************************)
(* C23                                                                     *)
(***************************************************************************)
\* The shells the program knows, with their constants
KnownShells ==
    { << << "b", "a", "s", "h" >>, "SHELL_BASH" >>,
      << << "d", "a", "s", "h" >>, "SHELL_DASH" >>,
      << << "f", "i", "s", "h" >>, "SHELL_FISH" >>,
      << << "k", "s", "h" >>, "SHELL_KSH" >>,
      << << "t", "c", "s", "h" >>, "SHELL_TCSH" >>,
      << << "z", "s", "h" >>, "SHELL_ZSH" >> }

\* C23: get_sys_shell returns the constant of the shell whose name is the
\* last component of the target of /bin/sh, for each of bash, dash, fish,
\* ksh, tcsh and zsh, and SHELL_NONE when the link cannot be read or names
\* another program.
C23_ShellOfLinkTarget ==
    startup.fn = "get_sys_shell" /\ startup.done =>
        IF startup.ret = -1
        THEN startup.shell = "SHELL_NONE"
        ELSE /\ \A k \in KnownShells :
                   LastComponent(startup.link) = k[1]
                       => startup.shell = k[2]
             /\ (\A k \in KnownShells : LastComponent(startup.link) # k[1])
                   => startup.shell = "SHELL_NONE"

(***************************************************************************)
(* C24                                                                     *)
(***************************************************************************)
\* external_arguments has ended the program
ArgsExited ==
    startup.fn = "external_arguments" /\ startup.done /\ startup.exited

\* The program ended at an option it does not know or at an option whose
\* argument is missing
UsageError == ArgsExited /\ startup.reason = "usage"

\* The program ended at a start file that cannot be accessed
StartFileError == ArgsExited /\ startup.reason = "stat"

\* C24, as stated: a usage error ends the program with exit code 2, which
\* is not the code of a start file that cannot be accessed.
C24_UsageErrorExits2 == UsageError => startup.status = 2

\* C24, amended: a usage error ends the program with EXIT_FAILURE, the
\* code of a start file that cannot be accessed.
C24_UsageErrorExitsFailure ==
    /\ UsageError => startup.status = EXIT_FAILURE
    /\ StartFileError => startup.status = EXIT_FAILURE

\* An option whose argument is missing, after an option that was accepted
C24_Witness ==
    /\ startup.fn = "external_arguments"
    /\ UsageError
    /\ startup.argv = << "-x", "-w" >>
    /\ startup.status = 1

(***************************************************************************)
(* C25                                                                     *)
(***************************************************************************)
\* get_aliases has read the configuration file
AliasesRead ==
    /\ startup.fn = "get_aliases"
    /\ startup.done
    /\ startup.config_ok = 1
    /\ startup.readable

\* A line `alias NAME=VALUE`, its name and its value
IsAliasLine(line) ==
    /\ Len(line) > 6
    /\ SubSeq(line, 1, 6) = << "a", "l", "i", "a", "s", " " >>
    /\ \E i \in 7..(Len(line) - 1) : line[i] = "="

EqualsSign(line) == FirstUp({i \in 7..Len(line) : line[i] = "="})

AliasName(line) == SubSeq(line, 7, EqualsSign(line) - 1)

AliasValue(line) == SubSeq(line, EqualsSign(line) + 1, Len(line))

\* The value is written between two single or two double quotes
IsQuoted(v) ==
    /\ Head(v) \in {"'", "\""}
    /\ \E j \in 2..Len(v) : v[j] = Head(v)

Unquote(v) ==
    SubSeq(v, 2, FirstUp({j \in 2..Len(v) : v[j] = Head(v)}) - 1)

\* The quoted definitions of the file, the first one of each name, in the
\* order of the file
RECURSIVE FirstDefinitions(_, _)
FirstDefinitions(file, seen) ==
    IF file = << >> THEN << >>
    ELSE LET l == Head(file)
         IN IF /\ IsAliasLine(l)
               /\ IsQuoted(AliasValue(l))
               /\ AliasName(l) \notin seen
            THEN << [name |-> AliasName(l), cmd |-> Unquote(AliasValue(l))] >>
                 \o FirstDefinitions(Tail(file), seen \cup {AliasName(l)})
            ELSE FirstDefinitions(Tail(file), seen)

\* The entries aliases[0..aliases_n-1] all bear a name
NamesSet ==
    /\ startup.aliases_n = Len(startup.aliases)
    /\ \A i \in 1..startup.aliases_n : startup.aliases[i].name # NULL

\* C25: after get_aliases the names of aliases[0..aliases_n-1] are set and
\* pairwise distinct: the table holds the first quoted definition of each
\* name, later definitions of the name are skipped, and a definition whose
\* value is not quoted adds no entry.
C25_DistinctNamedAliases ==
    startup.fn = "get_aliases" /\ startup.done =>
        /\ NamesSet
        /\ \A i, j \in 1..startup.aliases_n :
              startup.aliases[i].name = startup.aliases[j].name => i = j
        /\ AliasesRead =>
              /\ Len(startup.aliases) = Len(FirstDefinitions(startup.file, {}))
              /\ \A i \in 1..Len(startup.aliases) :
                    /\ startup.aliases[i].name =
                          Some(FirstDefinitions(startup.file, {})[i].name)
                    /\ startup.aliases[i].cmd =
                          Some(FirstDefinitions(startup.file, {})[i].cmd)

\* A reload of a file that defines x unquoted, then twice quoted: the
\* table holds the first quoted definition alone
C25_Witness ==
    /\ AliasesRead
    /\ startup.before # << >>
    /\ startup.file =
          << << "a", "l", "i", "a", "s", " ", "x", "=", "d", NL >>,
             << "a", "l", "i", "a", "s", " ", "x", "=", "\"", "b", "\"", NL >>,
             << "a", "l", "i", "a", "s", " ", "x", "=", "'", "a", "'", NL >> >>
    /\ startup.aliases =
          << [name |-> Some(<< "x" >>), cmd |-> Some(<< "b" >>)] >>

(***************************************************************************)
(* C26                                                                     *)
(***************************************************************************)
\* C26: rl_suggestions returns EXIT_SUCCESS exactly when a suggestion is
\* available: when it returns EXIT_SUCCESS suggestion.printed is 1, and
\* when no suggestion is left on the screen it returns EXIT_FAILURE.
C26_SuccessIffSuggestion ==
    Called =>
        /\ obs.ret = EXIT_SUCCESS => suggestion.printed = 1
        /\ suggestion.printed = 0 => obs.ret = EXIT_FAILURE

(***************************************************************************)
(* C27                                                                     *)
(***************************************************************************)
\* The value an option left UNSET is to get: that of the command line when
\* it gave one, the compile-time default otherwise
FillValue(n) ==
    IF startup.xargs[n] # UNSET THEN startup.xargs[n] ELSE startup.def[n]

\* C27: check_options only fills in the options still UNSET: an option set
\* on entry holds the same value on return, an option UNSET on entry holds
\* the value of the command line when there is one and the compile-time
\* default otherwise, and no option is UNSET on return.
C27_OnlyFillsUnset ==
    OptionsChecked =>
        \A n \in OptionNames :
            /\ startup.entry[n] # UNSET
                  => startup.opts[n] = startup.entry[n]
            /\ startup.entry[n] = UNSET => startup.opts[n] = FillValue(n)
            /\ startup.opts[n] # UNSET

(***************************************************************************)
(* C28                                                                     *)
(***************************************************************************)
\* C28: after every sequence of calls of rl_suggestions, suggestion.printed
\* is 1 only while suggestion_buf holds a suggestion.
C28_PrintedHasBuffer ==
    Called => (suggestion.printed = 1 => suggestion_buf # NULL)

(***************************************************************************)
(* C29                                                                     *)
(***************************************************************************)
\* C29: after set_start_path returns, cur_ws is an index of workspaces and
\* the path of that workspace is set, whatever -w gave and whatever the
\* `.last` file holds.
C29_WorkspaceInRange ==
    startup.fn = "set_start_path" /\ startup.done /\ ~startup.exited =>
        /\ 0 <= startup.cur_ws
        /\ startup.cur_ws < MAX_WS
        /\ startup.workspaces[startup.cur_ws + 1] # NULL

(***************************************************************************)
(* C30                                                                     *)
(***************************************************************************)
\* C30: a suggestion that is stored bears the type of the source that
\* produced it, whatever the key: one of the files of the current
\* directory is a FILE_SUG and one of the path completion a COMP_SUG, after
\* backspace as after any other key.
C30_TypeNamesSource ==
    Called /\ suggestion_buf # NULL =>
        /\ obs.by = "f" => suggestion.type = "FILE_SUG"
        /\ obs.by = "c" => suggestion.type = "COMP_SUG"

=============================================================================
